---- MODULE Spec2Model ----
(***************************************************************************)
(* The mcpx gateway daemon (src/src/gateway/server.ts): the JSON-RPC       *)
(* router, the stdio connection pool, the auth passthrough and the secret  *)
(* resolution, as a state machine.  One action is one synchronous segment  *)
(* of a request handler, from one await to the next; the continuation of a *)
(* settled promise runs before the event loop takes its next event.        *)
(*                                                                         *)
(* Four specifications share the actions: Spec (two stdio upstreams whose  *)
(* configuration is rewritten while requests are served), SpecStdio (one   *)
(* stdio upstream whose connects and calls fail), SpecHttp (HTTP           *)
(* upstreams, local auth, routing, auth challenges) and SpecSecret (secret *)
(* references, stored and removed).                                        *)
(*                                                                         *)
(* Strings that the code splits or scans (tool names, resource URIs) are   *)
(* sequences of one-character strings.  JavaScript indices are 0-based;    *)
(* IndexOf and Slice keep that convention.                                 *)
(***************************************************************************)
EXTENDS Integers, Sequences, FiniteSets, TLC

\* ------------------------------------------------------------------ bounds

\* Number of inbound HTTP requests that may be in progress at the same time.
NumSlots == 3

\* Number of inbound HTTP requests accepted in one behaviour.
MaxArrivals == 4

Slots == 1..NumSlots

\* Number of requests in progress at the same time in the specifications
\* whose requests do not race on the pool.
FewSlots == 2

\* ------------------------------------------------------------ string helpers

\* String.prototype.indexOf for a one-character needle: 0-based, -1 if absent.
IndexOf(s, ch) ==
  IF \E i \in 1..Len(s) : s[i] = ch
  THEN (CHOOSE i \in 1..Len(s) : s[i] = ch /\ \A j \in 1..(i - 1) : s[j] # ch) - 1
  ELSE -1

\* String.prototype.slice(from) and slice(from, to), 0-based, to exclusive.
SliceFrom(s, from) == SubSeq(s, from + 1, Len(s))
Slice(s, from, to) == SubSeq(s, from + 1, to)

\* String.prototype.startsWith.
StartsWith(s, p) == Len(s) >= Len(p) /\ SubSeq(s, 1, Len(p)) = p

Dot == "."
Slash == "/"
McpxScheme == <<"m", "c", "p", "x", ":", "/", "/">>

\* The absent value of an optional string (undefined, or the empty string where
\* the code tests truthiness).
None == <<>>

\* ------------------------------------------------ namespaced identifiers

NoSplit == [ok |-> FALSE, serverName |-> None, rest |-> None]

\* splitNamespacedName: split on the first '.', null when the dot is missing,
\* first or last.
splitNamespacedName(value) ==
  LET split == IndexOf(value, Dot) IN
  IF split <= 0 \/ split >= Len(value) - 1
  THEN NoSplit
  ELSE [ok |-> TRUE, serverName |-> Slice(value, 0, split), rest |-> SliceFrom(value, split + 1)]

\* encodeURIComponent on the model's alphabet: ':' '/' and '%' are escaped,
\* letters, digits and '.' are kept.
EncodeChar(ch) ==
  CASE ch = ":" -> <<"%", "3", "A">>
    [] ch = "/" -> <<"%", "2", "F">>
    [] ch = "%" -> <<"%", "2", "5">>
    [] OTHER -> <<ch>>

RECURSIVE encodeURIComponent(_)
encodeURIComponent(s) ==
  IF s = <<>> THEN <<>> ELSE EncodeChar(Head(s)) \o encodeURIComponent(Tail(s))

\* decodeURIComponent: [ok, v]; a '%' that does not start a valid escape throws
\* (URIError), which is ok = FALSE.
DecodeEscape(a, b) ==
  CASE a = "3" /\ b = "A" -> ":"
    [] a = "2" /\ b = "F" -> "/"
    [] a = "2" /\ b = "5" -> "%"
    [] a = "2" /\ b = "E" -> "."
    [] OTHER -> ""

RECURSIVE decodeURIComponent(_)
decodeURIComponent(s) ==
  IF s = <<>> THEN [ok |-> TRUE, v |-> <<>>]
  ELSE IF Head(s) = "%"
       THEN IF Len(s) < 3 \/ DecodeEscape(s[2], s[3]) = ""
            THEN [ok |-> FALSE, v |-> <<>>]
            ELSE LET r == decodeURIComponent(SubSeq(s, 4, Len(s))) IN
                 [ok |-> r.ok, v |-> <<DecodeEscape(s[2], s[3])>> \o r.v]
       ELSE LET r == decodeURIComponent(Tail(s)) IN
            [ok |-> r.ok, v |-> <<Head(s)>> \o r.v]

\* parseNamespacedUri: mcpx://<server>/<encoded>, else the '.' split of the
\* whole value.
parseNamespacedUri(uri) ==
  IF StartsWith(uri, McpxScheme)
  THEN LET rest == SliceFrom(uri, Len(McpxScheme))
           slashIndex == IndexOf(rest, Slash)
       IN IF slashIndex <= 0 \/ slashIndex >= Len(rest) - 1
          THEN NoSplit
          ELSE LET dec == decodeURIComponent(SliceFrom(rest, slashIndex + 1)) IN
               IF dec.ok
               THEN [ok |-> TRUE, serverName |-> Slice(rest, 0, slashIndex), rest |-> dec.v]
               ELSE NoSplit
  ELSE splitNamespacedName(uri)

\* ------------------------------------------------ upstream specifications

\* An upstream specification (HttpServerSpec | StdioServerSpec) as the object
\* loadConfig returns: keys lists the own properties in insertion order, the
\* other fields hold their values.  A header or env value is a sequence of
\* words; <<"secret://", name>> is the reference secret://name.
StdioSpec(command, env) ==
  [transport |-> "stdio", command |-> command, url |-> "", pairs |-> env,
   keys |-> IF env = <<>> THEN <<"transport", "command">>
            ELSE <<"transport", "command", "env">>]

HttpSpec(url, headers) ==
  [transport |-> "http", command |-> "", url |-> url, pairs |-> headers,
   keys |-> IF headers = <<>> THEN <<"transport", "url">>
            ELSE <<"transport", "url", "headers">>]

RECURSIVE StringifyPairs(_)
StringifyPairs(ps) ==
  IF ps = <<>> THEN <<>>
  ELSE <<ps[1][1], ":">> \o ps[1][2] \o <<",">> \o StringifyPairs(Tail(ps))

StringifyKey(spec, key) ==
  CASE key = "transport" -> <<key, ":", spec.transport, ",">>
    [] key = "command" -> <<key, ":", spec.command, ",">>
    [] key = "url" -> <<key, ":", spec.url, ",">>
    [] OTHER -> <<key, ":", "{">> \o StringifyPairs(spec.pairs) \o <<"}", ",">>

RECURSIVE StringifyKeys(_, _)
StringifyKeys(spec, keys) ==
  IF keys = <<>> THEN <<>>
  ELSE StringifyKey(spec, Head(keys)) \o StringifyKeys(spec, Tail(keys))

\* specFingerprint: JSON.stringify(spec), the properties in insertion order.
specFingerprint(spec) == <<"{">> \o StringifyKeys(spec, spec.keys) \o <<"}">>

\* ------------------------------------------------------------ configuration

\* config.servers is a sequence of [name, spec] in Object.entries order.
HasServer(cfg, name) == \E i \in 1..Len(cfg) : cfg[i].name = name

ServerSpec(cfg, name) == (CHOOSE i \in 1..Len(cfg) : cfg[i].name = name)

SpecOf(cfg, name) == cfg[ServerSpec(cfg, name)].spec

\* A listUpstreams that would return the entries last to first.
listUpstreamsReversed(cfg, upstreamFilter) ==
  IF upstreamFilter = None THEN [i \in 1..Len(cfg) |-> cfg[Len(cfg) + 1 - i]]
  ELSE SelectSeq(cfg, LAMBDA e : e.name = upstreamFilter)

\* listUpstreams: every entry, or the entries named by the filter.
listUpstreams(cfg, upstreamFilter) ==
  IF upstreamFilter = None THEN cfg
  ELSE SelectSeq(cfg, LAMBDA e : e.name = upstreamFilter)

\* ------------------------------------------------------------------ secrets

SecretPrefix == "secret://"

\* parseSecretRef: the name after secret://, null (None) when the value is no
\* reference or the name is empty.
parseSecretRef(ref) ==
  IF Len(ref) >= 1 /\ ref[1] = SecretPrefix
  THEN (IF Len(ref) >= 2 THEN ref[2] ELSE "")
  ELSE ""

\* resolveMaybeSecret without the check of lines 107-109: a reference that finds no
\* value is handed on as it is.
resolveMaybeSecretUnchecked(value, store) ==
  IF parseSecretRef(value) \in store
  THEN [ok |-> TRUE, v |-> <<"value-of", parseSecretRef(value)>>]
  ELSE [ok |-> TRUE, v |-> value]

\* SecretsManager.resolveMaybeSecret: [ok, v]; ok = FALSE is the thrown
\* Error("Secret not found: <name>").  store is the set of names getSecret finds.
resolveMaybeSecret(value, store) ==
  LET secretName == parseSecretRef(value) IN
  IF secretName = "" THEN [ok |-> TRUE, v |-> value]
  ELSE IF secretName \in store
       THEN [ok |-> TRUE, v |-> <<"value-of", secretName>>]
       ELSE [ok |-> FALSE, v |-> <<>>]

\* Every value of the pairs resolves.
AllResolve(ps, store) == \A i \in 1..Len(ps) : resolveMaybeSecret(ps[i][2], store).ok

\* Some value of the pairs is secret://name with no value stored for name.
SecretAbsent(ps, store) ==
  \E i \in 1..Len(ps) :
    /\ Len(ps[i][2]) = 2 /\ ps[i][2][1] = SecretPrefix
    /\ ps[i][2][2] \notin store

\* ------------------------------------------------------- local authentication

\* A header value is the sequence of the words that split(" ") yields.
Undefined == "\\undefined"

Field(h, i) == IF Len(h) >= i THEN h[i] ELSE Undefined

\* authHeaderIsValid: x-mcpx-local-token equals the token, or the first two
\* words of Authorization are Bearer and the token.
authHeaderIsValid(localTokenHeader, authHeader, expectedToken) ==
  \/ localTokenHeader = expectedToken
  \/ /\ authHeader # None
     /\ Field(authHeader, 1) = "Bearer"
     /\ Field(authHeader, 2) = expectedToken

\* getClientAuthorizationForUpstream: undefined (None) for no header and for
\* the local token as bearer, the header otherwise.
getClientAuthorizationForUpstream(authHeader, expectedToken) ==
  IF authHeader = None THEN None
  ELSE IF Field(authHeader, 1) = "Bearer" /\ Field(authHeader, 2) = expectedToken
       THEN None
       ELSE authHeader

\* ------------------------------------------------------ outbound HTTP headers

\* headers[key] = value on a JavaScript object: replace in place or append.
SetHeader(obj, key, value) ==
  IF \E i \in 1..Len(obj) : obj[i][1] = key
  THEN [i \in 1..Len(obj) |-> IF obj[i][1] = key THEN <<key, value>> ELSE obj[i]]
  ELSE Append(obj, <<key, value>>)

RECURSIVE MergeResolved(_, _, _)
MergeResolved(obj, ps, store) ==
  IF ps = <<>> THEN obj
  ELSE MergeResolved(SetHeader(obj, ps[1][1], resolveMaybeSecret(ps[1][2], store).v),
                     Tail(ps), store)

\* callHttpUpstream, lines 444-455: the headers object handed to fetch.
BuildHeaders(spec, store, passthroughAuthorizationHeader) ==
  LET base == <<<<"content-type", <<"application/json">>>>,
                <<"accept", <<"application/json, text/event-stream">>>>>>
      merged == MergeResolved(base, spec.pairs, store)
  IN IF passthroughAuthorizationHeader # None
     THEN SetHeader(merged, "Authorization", passthroughAuthorizationHeader)
     ELSE merged

\* Header names are case-insensitive on the wire.
LowerName(key) == IF key \in {"Authorization", "AUTHORIZATION"} THEN "authorization" ELSE key

\* fetch fills its Headers from the object by appending each property: the
\* values of names that differ only in case are combined, in order.  The
\* result is the sequence of the values the upstream receives for the name.
WireHeader(obj, lname) ==
  LET hits == SelectSeq(obj, LAMBDA p : LowerName(p[1]) = lname) IN
  [i \in 1..Len(hits) |-> hits[i][2]]

\* ---------------------------------------------------- WWW-Authenticate rewrite

\* A www-authenticate value is a sequence of segments: text, or a
\* resource_metadata parameter with its value quoted or not.
TextSeg(t) == [k |-> "text", quoted |-> FALSE, v |-> t]
RmSeg(quoted, url) == [k |-> "resource_metadata", quoted |-> quoted, v |-> url]

FirstQuoted(hv) ==
  IF \E i \in 1..Len(hv) : hv[i].k = "resource_metadata" /\ hv[i].quoted
  THEN CHOOSE i \in 1..Len(hv) :
         /\ hv[i].k = "resource_metadata" /\ hv[i].quoted
         /\ \A j \in 1..(i - 1) : ~(hv[j].k = "resource_metadata" /\ hv[j].quoted)
  ELSE 0

\* rewriteWwwAuthenticateResourceMetadata: when the value includes
\* resource_metadata= the first resource_metadata="..." is replaced (the regex
\* has no g flag and needs the quotes), otherwise the parameter is appended.
rewriteWwwAuthenticateResourceMetadata(headerValue, localResourceMetadataUrl) ==
  IF \E i \in 1..Len(headerValue) : headerValue[i].k = "resource_metadata"
  THEN LET q == FirstQuoted(headerValue) IN
       [i \in 1..Len(headerValue) |->
          IF i = q THEN RmSeg(TRUE, localResourceMetadataUrl) ELSE headerValue[i]]
  ELSE headerValue \o <<TextSeg(", "), RmSeg(TRUE, localResourceMetadataUrl)>>

\* appendUpstreamQuery on the gateway's own protected-resource URL.
LocalResourceMetadataUrl(upstreamFilter) ==
  [origin |-> "gateway", path |-> "/.well-known/oauth-protected-resource",
   upstream |-> upstreamFilter]

UpstreamResourceMetadataUrl ==
  [origin |-> "upstream", path |-> "/.well-known/oauth-protected-resource",
   upstream |-> None]

\* ------------------------------------------------------------------- state

VARIABLES
  config,    \* the configuration file: config.servers as a sequence of [name, spec]
  secrets,   \* the names for which SecretsManager.getSecret finds a value
  pool,      \* runtime.stdioConnections: entries [name, fingerprint, conn] in insertion order
  conns,     \* every connection promise created so far, by creation order
  req,       \* the inbound HTTP requests in progress, by slot
  arrivals,  \* the number of inbound requests accepted so far
  client,    \* the config file of a client (VS Code) and the managed index
  listening, \* the HTTP server has not emitted "close"
  stream     \* the text/event-stream body of an upstream response and its reader

vars == <<config, secrets, pool, conns, req, arrivals, client, listening, stream>>

\* options.expectedToken of createGatewayServer.
ExpectedToken == "local-token"

\* ----------------------------------------------------- the pool (a Map)

PoolHas(p, name) == \E i \in 1..Len(p) : p[i].name = name

PoolGet(p, name) == p[CHOOSE i \in 1..Len(p) : p[i].name = name]

\* Map.delete.
PoolDelete(p, name) == SelectSeq(p, LAMBDA e : e.name # name)

\* Map.set: an existing key keeps its place.
PoolSet(p, e) ==
  IF PoolHas(p, e.name)
  THEN [i \in 1..Len(p) |-> IF p[i].name = e.name THEN e ELSE p[i]]
  ELSE Append(p, e)

\* closeStdioConnection is called on the entry of connection c: it awaits the
\* promise, then closes the transport (see TransportClosed).
closeStdioConnection(cs, c) == [cs EXCEPT ![c].closing = TRUE]

\* The close of connection c has returned: the transport is closed, or the
\* promise was rejected and the error ignored.
CloseReturned(cs, c) == cs[c].closing /\ cs[c].state \in {"closed", "failed"}

\* invalidateStdioConnection.
invalidateStdioConnection(p, cs, name) ==
  IF PoolHas(p, name)
  THEN [pool |-> PoolDelete(p, name), conns |-> closeStdioConnection(cs, PoolGet(p, name).conn)]
  ELSE [pool |-> p, conns |-> cs]

\* reconcileStdioConnections, lines 317-327: the names of the entries whose
\* upstream is gone or whose fingerprint differs, in Map order.
StaleNames(cfg, p) ==
  LET stale == SelectSeq(p, LAMBDA e :
                 \/ ~HasServer(cfg, e.name)
                 \/ specFingerprint(SpecOf(cfg, e.name)) # e.fingerprint)
  IN [i \in 1..Len(stale) |-> stale[i].name]

\* reconcileStdioConnections, lines 329-337: the loop from its current name to
\* its next await (wait is the connection whose close is awaited) or to its
\* end (wait = 0).
RECURSIVE ReconcileLoop(_, _, _)
ReconcileLoop(p, cs, staleNames) ==
  IF staleNames = <<>>
  THEN [pool |-> p, conns |-> cs, stale |-> <<>>, wait |-> 0]
  ELSE IF ~PoolHas(p, Head(staleNames))
       THEN ReconcileLoop(p, cs, Tail(staleNames))
       ELSE [pool |-> PoolDelete(p, Head(staleNames)),
             conns |-> closeStdioConnection(cs, PoolGet(p, Head(staleNames)).conn),
             stale |-> Tail(staleNames),
             wait |-> PoolGet(p, Head(staleNames)).conn]

\* A new connection promise; spec is the specification it was built from.  With an env secret missing the async function
\* throws before the transport exists: the promise is rejected, no child.
NewConn(name, spec, store) ==
  [name |-> name, fp |-> specFingerprint(spec),
   state |-> IF AllResolve(spec.pairs, store) THEN "connecting" ELSE "failed",
   err |-> IF AllResolve(spec.pairs, store) THEN "" ELSE "Secret not found",
   closing |-> FALSE,
   clean |-> AllResolve(spec.pairs, store),
   spec |-> spec]

\* The child process of a connection (StdioClientTransport.start) is spawned
\* unless the promise was rejected before the transport existed.
Spawned(c) == c.err # "Secret not found"

\* History of a connection, kept for the statements about respawning: clean
\* is TRUE from the creation of the connection until a connect or a call on
\* its upstream fails or a fingerprint other than its own is configured or
\* presented for its upstream.
Unclean(cs, name) ==
  [i \in 1..Len(cs) |-> IF cs[i].name = name THEN [cs[i] EXCEPT !.clean = FALSE] ELSE cs[i]]

\* A call presents fingerprint fp for name: when a connection of that name has
\* another fingerprint, the fingerprint has changed.
MarkChanged(cs, name, fp) ==
  IF \E i \in 1..Len(cs) : cs[i].name = name /\ cs[i].fp # fp /\ cs[i].clean
  THEN Unclean(cs, name) ELSE cs

\* getStdioConnection, lines 355-383: up to the await of the promise.
getStdioConnection(p, cs, name, spec, store) ==
  LET fingerprint == specFingerprint(spec)
      marked == MarkChanged(cs, name, fingerprint)
  IN IF PoolHas(p, name) /\ PoolGet(p, name).fingerprint = fingerprint
     THEN [pool |-> p, conns |-> marked, conn |-> PoolGet(p, name).conn, created |-> FALSE]
     ELSE LET p1 == PoolDelete(p, name)
              cs1 == IF PoolHas(p, name)
                     THEN closeStdioConnection(marked, PoolGet(p, name).conn)
                     ELSE marked
              cs2 == Append(cs1, NewConn(name, spec, store))
          IN [pool |-> PoolSet(p1, [name |-> name, fingerprint |-> fingerprint, conn |-> Len(cs2)]),
              conns |-> cs2, conn |-> Len(cs2), created |-> TRUE]

\* ------------------------------------------------------------ the upstreams

ListMethods == {"tools/list", "resources/list", "prompts/list"}
CallMethods == {"tools/call", "resources/read", "prompts/get"}

\* Server names used in the configurations.
SrvA == <<"a">>
SrvB == <<"b">>
SrvDotted == <<"a", ".", "b">>

\* What an upstream answers to a list method: the local tool or prompt names,
\* or the resource URIs.  Names and URIs may contain '.'.
Catalog(up, method) ==
  IF method = "resources/list"
  THEN << <<"f", ":", "/", "x", ".", "t">>, <<"u">> >>
  ELSE IF up = SrvA THEN << <<"e">>, <<"b", ".", "e">> >>
       ELSE IF up = SrvB THEN << <<"e">>, <<"a", ".", "e">> >>
       ELSE << <<"e">> >>

\* A list handler that would never prefix.
ListItemFlat(method, flattenNames, up, local) ==
  [name |-> local, uri |-> IF method # "resources/list" THEN None ELSE local,
   up |-> up, local |-> local]

\* handleListTools / handleListResources / handleListPrompts: the item pushed
\* for one upstream item.  up and local record where the item came from.
ListItem(method, flattenNames, up, local) ==
  [name |-> IF flattenNames THEN local ELSE up \o <<Dot>> \o local,
   uri |-> IF method # "resources/list" THEN None
           ELSE IF flattenNames THEN local
           ELSE McpxScheme \o up \o <<Slash>> \o encodeURIComponent(local),
   up |-> up, local |-> local]

ListItems(method, flattenNames, up) ==
  [i \in 1..Len(Catalog(up, method)) |-> ListItem(method, flattenNames, up, Catalog(up, method)[i])]

\* ------------------------------------------------------ one inbound request

IdleRequest ==
  [pc |-> "idle", hm |-> "", tok |-> "", auth |-> <<>>, filter |-> <<>>, method |-> "",
   param |-> <<>>, pass |-> <<>>, cfg |-> <<>>, stale |-> <<>>, wait |-> 0, todo |-> <<>>,
   cur |-> <<>>, ident |-> <<>>, conn |-> 0, creator |-> FALSE, calls |-> <<>>,
   items |-> <<>>, status |-> 0, code |-> 0, msg |-> "", www |-> <<>>, outcome |-> "",
   upstatus |-> 0, upwww |-> <<>>, miss |-> FALSE,
   listed |-> FALSE, wantUp |-> <<>>, wantLocal |-> <<>>,
   file |-> <<>>, failed |-> <<>>,
   body |-> <<>>, batch |-> FALSE, elems |-> <<>>, pos |-> 0, sse |-> FALSE,
   responses |-> <<>>, shape |-> "", elapsed |-> FALSE, named |-> <<>>]

\* A request handler that would put each response before the earlier ones.
PushResponseFirst(responses, rpcResponse) == <<rpcResponse>> \o responses

\* responses.push(rpcResponse), lines 1171-1173 and 1186-1188.
PushResponse(responses, rpcResponse) == Append(responses, rpcResponse)

\* createGatewayServer, lines 1193-1222: the 200 response.  shape is the form
\* of its body: the events of an SSE stream, one JSON object, or a JSON array.
EndResponse(rq) ==
  [rq EXCEPT !.pc = "done", !.status = 200,
     !.shape = IF rq.sse THEN "events"
               ELSE IF Len(rq.responses) = 1 THEN "object" ELSE "array"]

\* handleRequestObject has returned rpcResponse (None for null) for the
\* element at pos (lines 1161-1191): the response is pushed, and the handler
\* goes on with the next element of the batch or to the 200 response.
Returned(rq, rpcResponse) ==
  LET pushed == [rq EXCEPT !.stale = <<>>, !.wait = 0, !.todo = <<>>, !.elapsed = FALSE,
                   !.responses = IF rpcResponse = None THEN @
                                 ELSE PushResponse(@, rpcResponse)]
  IN IF rq.pos < Len(rq.elems) THEN [pushed EXCEPT !.pc = "next"] ELSE EndResponse(pushed)

\* return makeError(id, code, msg).  src records the element answered.
RespondError(rq, code, msg) ==
  Returned([rq EXCEPT !.code = code, !.msg = msg], [src |-> rq.pos, code |-> code])

\* return makeResult(id, result).
RespondResult(rq) == Returned(rq, [src |-> rq.pos, code |-> 0])

\* createGatewayServer, lines 1224-1238: the auth challenge becomes the HTTP
\* response, its www-authenticate rewritten when there is one.
RespondChallenge(rq, status, wwwAuthenticate) ==
  [rq EXCEPT !.pc = "done", !.status = status, !.msg = "upstream auth challenge",
     !.stale = <<>>, !.wait = 0, !.todo = <<>>, !.elapsed = FALSE,
     !.www = IF wwwAuthenticate = <<>> THEN <<>>
             ELSE rewriteWwwAuthenticateResourceMetadata(
                    wwwAuthenticate, LocalResourceMetadataUrl(rq.filter))]

\* callUpstream up to its first await.  ctx is [rq, pool, conns].  A stdio
\* upstream acquires the pooled connection and awaits it; an HTTP upstream
\* resolves its headers (pc "threw" when a secret is missing) and sends the
\* fetch.  calls records what is sent to an upstream.
StartCall(ctx, up, ident, store) ==
  LET spec == SpecOf(ctx.rq.cfg, up)
      missing == ~AllResolve(spec.pairs, store)
  IN IF spec.transport = "stdio"
     THEN LET a == getStdioConnection(ctx.pool, ctx.conns, up, spec, store) IN
          [rq |-> [ctx.rq EXCEPT !.pc = "connecting", !.cur = up, !.ident = ident,
                     !.elapsed = FALSE,
                     !.conn = a.conn, !.creator = a.created,
                     !.miss = SecretAbsent(spec.pairs, store)],
           pool |-> a.pool, conns |-> a.conns]
     ELSE IF missing
          THEN [ctx EXCEPT !.rq = [ctx.rq EXCEPT !.pc = "threw", !.cur = up, !.ident = ident,
                                     !.msg = "Secret not found",
                                     !.miss = SecretAbsent(spec.pairs, store)]]
          ELSE [ctx EXCEPT !.rq = [ctx.rq EXCEPT !.pc = "fetching", !.cur = up, !.ident = ident,
                  !.elapsed = FALSE,
                  !.miss = SecretAbsent(spec.pairs, store),
                  !.calls = Append(@, [up |-> up, transport |-> "http", ident |-> ident, conn |-> 0,
                     authorization |-> WireHeader(BuildHeaders(spec, store, ctx.rq.pass),
                                                  "authorization")])]]

\* handleList*: the loop over the upstreams from the next one to call to the
\* next await or to the end.  An error thrown before the await is swallowed
\* like any other that is no auth challenge.  failed records the upstreams
\* whose call threw.
RECURSIVE ListLoop(_, _)
ListLoop(ctx, store) ==
  IF ctx.rq.todo = <<>>
  THEN [ctx EXCEPT !.rq = RespondResult([ctx.rq EXCEPT !.msg = ""])]
  ELSE LET started == StartCall([ctx EXCEPT !.rq.todo = Tail(@)], Head(ctx.rq.todo), None, store)
       IN IF started.rq.pc = "threw"
          THEN ListLoop([started EXCEPT !.rq.failed = Append(@, started.rq.cur)], store)
          ELSE started

Names(entries) == [i \in 1..Len(entries) |-> entries[i].name]

\* A router without the check of the scope.
NoScopeMismatch(parsed, upstreamFilter) == FALSE

\* routeNamespacedCall, lines 808, 843 and 876: the identifier is namespaced
\* with a server that is not the one the request is scoped to.
ScopeMismatch(parsed, upstreamFilter) ==
  parsed.ok /\ upstreamFilter # None /\ parsed.serverName # upstreamFilter

\* routeNamespacedCall up to its await of callUpstream.  named records the
\* upstream names that the message of the mismatch error cites.
routeNamespacedCall(ctx, store) ==
  LET rq == ctx.rq
      upstreamEntries == listUpstreams(rq.cfg, rq.filter)
      parsed == IF rq.method = "resources/read" THEN parseNamespacedUri(rq.param)
                ELSE splitNamespacedName(rq.param)
  IN IF ScopeMismatch(parsed, rq.filter)
     THEN [ctx EXCEPT !.rq = RespondError([rq EXCEPT !.named = <<parsed.serverName, rq.filter>>],
                                          -32602, "belongs to another upstream")]
     ELSE IF parsed.ok /\ HasServer(upstreamEntries, parsed.serverName)
          THEN LET started == StartCall(ctx, parsed.serverName, parsed.rest, store) IN
               IF started.rq.pc = "threw"
               THEN [started EXCEPT !.rq = RespondError(started.rq, -32000, started.rq.msg)]
               ELSE started
          ELSE IF Len(upstreamEntries) = 1
               THEN LET started == StartCall(ctx, upstreamEntries[1].name, rq.param, store) IN
                    IF started.rq.pc = "threw"
                    THEN [started EXCEPT !.rq = RespondError(started.rq, -32000, started.rq.msg)]
                    ELSE started
               ELSE [ctx EXCEPT !.rq = RespondError(rq, -32602, "must be namespaced")]

\* handleRequestObject, lines 956-984: after the reconcile.
AfterReconcile(ctx, store) ==
  IF ctx.rq.method \in ListMethods
  THEN ListLoop([ctx EXCEPT !.rq.todo = Names(listUpstreams(ctx.rq.cfg, ctx.rq.filter))], store)
  ELSE IF ctx.rq.method \in CallMethods
       THEN routeNamespacedCall(ctx, store)
       ELSE [ctx EXCEPT !.rq = RespondError(ctx.rq, -32601, "Unsupported method")]

\* The reconcile loop has run to rec: it awaits a close, or it has returned
\* and handleRequestObject goes on (the continuations follow each other with
\* no I/O between them).
AfterReconcileLoop(rq, rec, store) ==
  IF rec.wait # 0
  THEN [rq |-> [rq EXCEPT !.pc = "closing", !.stale = rec.stale, !.wait = rec.wait],
        pool |-> rec.pool, conns |-> rec.conns]
  ELSE AfterReconcile([rq |-> [rq EXCEPT !.stale = <<>>, !.wait = 0],
                       pool |-> rec.pool, conns |-> rec.conns], store)

\* A list handler that would let the failure of an upstream end the list.
AfterCallUnisolated(ctx, failure, store) ==
  IF failure = ""
  THEN IF ctx.rq.method \in CallMethods
       THEN [ctx EXCEPT !.rq = RespondResult(ctx.rq)]
       ELSE ListLoop([ctx EXCEPT !.rq.items = @ \o ListItems(ctx.rq.method,
                        Len(listUpstreams(ctx.rq.cfg, ctx.rq.filter)) = 1, ctx.rq.cur)], store)
  ELSE [ctx EXCEPT !.rq = RespondError(ctx.rq, -32000, failure)]

\* A call on the current upstream has ended: a routed call answers, a list
\* goes on with the next upstream.  failure is the thrown message, "" for none.
AfterCall(ctx, failure, store) ==
  IF ctx.rq.method \in CallMethods
  THEN IF failure = "" THEN [ctx EXCEPT !.rq = RespondResult(ctx.rq)]
       ELSE [ctx EXCEPT !.rq = RespondError(ctx.rq, -32000, failure)]
  ELSE IF failure = ""
       THEN ListLoop([ctx EXCEPT !.rq.items = @ \o ListItems(ctx.rq.method,
                        Len(listUpstreams(ctx.rq.cfg, ctx.rq.filter)) = 1, ctx.rq.cur)], store)
       ELSE ListLoop([ctx EXCEPT !.rq.failed = Append(@, ctx.rq.cur)], store)

\* ----------------------------------------------------------------- actions

Ctx(r) == [rq |-> req[r], pool |-> pool, conns |-> conns]

\* The promise that request r awaits has settled: its continuation is in the
\* microtask queue.
Runnable(r) ==
  \/ req[r].pc = "connecting" /\ conns[req[r].conn].state # "connecting"
  \/ req[r].pc = "closing" /\ CloseReturned(conns, req[r].wait)
  \/ req[r].pc = "next"

\* The microtask queue is empty: the event loop takes the next event (a
\* request, a reply of an upstream, an exit, a timer).  The continuations of
\* settled promises run before it does.
Quiet == \A r \in Slots : ~Runnable(r)

Commit(r, ctx) ==
  /\ req' = [req EXCEPT ![r] = ctx.rq]
  /\ pool' = ctx.pool
  /\ conns' = ctx.conns

\* The UTF-8 bytes and the UTF-16 code units of a chunk of the request body.
\* A chunk is [ascii, wide, astral]: the numbers of its characters of one
\* byte, of three bytes (one code unit) and of four bytes (two code units).
Utf8Bytes(chunk) == chunk.ascii + 3 * chunk.wide + 4 * chunk.astral
Utf16Units(chunk) == chunk.ascii + chunk.wide + 2 * chunk.astral

\* The limit on body.length, line 1148.
MaxBodyLength == 2000000

\* createGatewayServer, lines 1142-1155: the chunks, decoded as utf8, are
\* appended to the string body, whose length is compared after each chunk.
RECURSIVE BodyTooLarge(_, _)
BodyTooLarge(chunks, length) ==
  IF chunks = <<>> THEN FALSE
  ELSE \/ length + Utf16Units(Head(chunks)) > MaxBodyLength
       \/ BodyTooLarge(Tail(chunks), length + Utf16Units(Head(chunks)))

\* handleRequestObject (lines 909-985) to its first await that waits for I/O:
\* the methods answered by the gateway, loadConfig, the scope check, the
\* reconcile and, when the reconcile closes nothing, the routing of the method.
\* Dispatch is the request handler before it (createGatewayServer, lines
\* 1103-1191): local auth, the GET probe, the body and its limit, and the
\* first element of the body.
handleRequestObject(rq, cfg, p, cs, store) ==
  LET ctx == [rq |-> rq, pool |-> p, conns |-> cs] IN
  IF rq.method = "notifications/initialized"
  THEN [ctx EXCEPT !.rq = Returned(rq, None)]
  ELSE IF rq.method \in {"initialize", "ping"}
  THEN [ctx EXCEPT !.rq = RespondResult(rq)]
  ELSE IF rq.filter # None /\ ~HasServer(cfg, rq.filter)
  THEN [ctx EXCEPT !.rq = RespondError(rq, -32602, "Unknown upstream")]
  ELSE AfterReconcileLoop(
         [rq EXCEPT !.cfg = cfg,
            !.pass = getClientAuthorizationForUpstream(rq.auth, ExpectedToken)],
         ReconcileLoop(p, cs, StaleNames(cfg, p)), store)

\* The element at position pos of the request body becomes the request
\* object that is handled; what the handling of the element before it left
\* in the request is reset.
AtElement(rq, pos) ==
  [rq EXCEPT !.pos = pos, !.method = rq.elems[pos].method, !.param = rq.elems[pos].param,
     !.cfg = <<>>, !.cur = <<>>, !.ident = <<>>, !.conn = 0, !.creator = FALSE,
     !.items = <<>>, !.code = 0, !.msg = "", !.outcome = "", !.upstatus = 0,
     !.upwww = <<>>, !.miss = FALSE, !.failed = <<>>, !.named = <<>>]

Dispatch(rq, cfg, p, cs, store) ==
  LET ctx == [rq |-> rq, pool |-> p, conns |-> cs] IN
  IF ~authHeaderIsValid(rq.tok, rq.auth, ExpectedToken)
  THEN [ctx EXCEPT !.rq = [rq EXCEPT !.pc = "done", !.status = 401,
                             !.code = -32001, !.msg = "Unauthorized"]]
  ELSE IF rq.hm = "GET"
  THEN [ctx EXCEPT !.rq = [rq EXCEPT !.pc = "done", !.status = 200]]
  ELSE IF BodyTooLarge(rq.body, 0)
  THEN [ctx EXCEPT !.rq = [rq EXCEPT !.pc = "done", !.status = 413,
                             !.msg = "Payload Too Large"]]
  ELSE IF rq.elems = <<>>
  THEN [ctx EXCEPT !.rq = EndResponse(rq)]
  ELSE handleRequestObject(AtElement(rq, 1), cfg, p, cs, store)

\* The configuration with which the daemon of the catalog specification
\* starts: one HTTP upstream.
CatalogA == << [name |-> SrvA, spec |-> HttpSpec("http://a", <<>>)] >>

\* A gateway that would read the configuration once, at its start.
loadConfigAtStart(file) == CatalogA

\* loadConfig: the configuration file as it is when the call is made.
loadConfig(file) == file

\* The event loop takes a request when a slot is free (the first free slot)
\* and the bound on arrivals allows it.
Accepts(r) ==
  /\ Quiet
  /\ listening
  /\ req[r].pc = "idle"
  /\ \A q \in Slots : q < r => req[q].pc # "idle"
  /\ arrivals < MaxArrivals

\* An element of a request body: one JSON-RPC request object.
Element(method, param) == [method |-> method, param |-> param]

\* A body of a few ASCII characters, in one chunk.
SmallBody == << [ascii |-> 40, wide |-> 0, astral |-> 0] >>

\* A client sends a request in of Inputs: [hm, tok, auth, filter, body, batch,
\* elems, sse].  file records the configuration file as it is at the dispatch.
Receive(r, Inputs) ==
  /\ Accepts(r)
  /\ arrivals' = arrivals + 1
  /\ UNCHANGED <<stream, listening, client, config, secrets>>
  /\ \E in \in Inputs :
       Commit(r, Dispatch([IdleRequest EXCEPT !.hm = in.hm, !.tok = in.tok, !.auth = in.auth,
                             !.filter = in.filter, !.body = in.body, !.batch = in.batch,
                             !.elems = in.elems, !.sse = in.sse, !.file = config],
                          loadConfig(config), pool, conns, secrets))

\* A client calls a tool by a name that a tools/list answered under the same
\* configuration and scope.  wantUp and wantLocal record the upstream that
\* listed the tool and the name it has there.
ReceiveListed(r) ==
  /\ Accepts(r)
  /\ arrivals' = arrivals + 1
  /\ UNCHANGED <<stream, listening, client, config, secrets>>
  /\ \E q \in Slots : \E i \in 1..Len(req[q].items) :
       /\ req[q].pc = "done" /\ req[q].method = "tools/list" /\ req[q].cfg = config
       /\ Commit(r, Dispatch([IdleRequest EXCEPT !.hm = "POST", !.tok = req[q].tok,
                                !.auth = req[q].auth, !.filter = req[q].filter,
                                !.body = SmallBody,
                                !.elems = << Element("tools/call", req[q].items[i].name) >>,
                                !.listed = TRUE, !.wantUp = req[q].items[i].up,
                                !.wantLocal = req[q].items[i].local, !.file = config],
                             loadConfig(config), pool, conns, secrets))

\* The loop over the elements of a batch (lines 1161-1175) goes on with the
\* next element: handleRequestObject loads the configuration again.
BatchNext(r) ==
  /\ req[r].pc = "next"
  /\ Commit(r, handleRequestObject(AtElement([req[r] EXCEPT !.file = config], req[r].pos + 1),
                                   loadConfig(config), pool, conns, secrets))
  /\ UNCHANGED <<stream, listening, client, config, secrets, arrivals>>

\* reconcileStdioConnections resumes after an awaited close and runs to its
\* next await, or returns to handleRequestObject, which routes the method.
\* When the close returned because the promise was rejected, the callers that
\* await the same promise in getStdioConnection run their catch first: their
\* reactions need fewer turns of the microtask queue than the return through
\* closeStdioConnection, reconcileStdioConnections and handleRequestObject.
ReconcileResume(r) ==
  /\ req[r].pc = "closing"
  /\ Runnable(r)
  /\ ~\E q \in Slots : /\ req[q].pc = "connecting"
                        /\ req[q].conn = req[r].wait
                        /\ Runnable(q)
  /\ Commit(r, AfterReconcileLoop(req[r], ReconcileLoop(pool, conns, req[r].stale), secrets))
  /\ UNCHANGED <<stream, listening, client, config, secrets, arrivals>>

\* getStdioConnection / callStdioUpstream resume when the awaited promise has
\* settled.  Resolved: the client method is called (lines 405-427).  Rejected:
\* the creator deletes the entry of the name (line 388) and rethrows into the
\* catch of callStdioUpstream (lines 430-433), which invalidates the name; a
\* caller that shared the promise gets the rejection in that catch directly.
ConnectReturn(r) ==
  /\ req[r].pc = "connecting"
  /\ Runnable(r)
  /\ UNCHANGED <<stream, listening, client, config, secrets, arrivals>>
  /\ IF conns[req[r].conn].state = "failed"
     THEN LET p1 == IF req[r].creator THEN PoolDelete(pool, req[r].cur) ELSE pool
              inv == invalidateStdioConnection(p1, Unclean(conns, req[r].cur), req[r].cur)
          IN Commit(r, AfterCall([rq |-> req[r], pool |-> inv.pool, conns |-> inv.conns],
                                 conns[req[r].conn].err, secrets))
     ELSE Commit(r, [Ctx(r) EXCEPT !.rq = [req[r] EXCEPT !.pc = "calling",
                       !.calls = Append(@, [up |-> req[r].cur, transport |-> "stdio",
                                            ident |-> req[r].ident, conn |-> req[r].conn,
                                            authorization |-> <<>>])]])

\* What callStdioUpstream does to the pool when the promise it returned
\* (return withTimeout(...), lines 405-427) is rejected.  The promise is
\* returned without await, so the rejection does not pass through the catch
\* of lines 430-433: the pool is left as it is.
OnStdioCallRejected(p, cs, name) == [pool |-> p, conns |-> cs]

StdioFailure(out) ==
  CASE out = "rpc" -> "upstream error"
    [] out = "transport" -> "Connection closed"
    [] out = "timeout" -> "timed out"
    [] OTHER -> ""

\* The client method of a stdio call settles: a result, a JSON-RPC error of
\* the upstream, a transport error (the child exited or the transport was
\* closed), or the deadline of withTimeout.
CallReturn(r, Outcomes) ==
  /\ Quiet
  /\ req[r].pc = "calling"
  /\ UNCHANGED <<stream, listening, client, config, secrets, arrivals>>
  /\ \E out \in Outcomes :
       /\ out \in {"ok", "rpc"} => conns[req[r].conn].state = "ready"
       /\ out = "transport" => conns[req[r].conn].state \in {"exited", "closed"}
       /\ out = "timeout" => conns[req[r].conn].state = "ready"
       /\ LET after == IF out = "ok" THEN [pool |-> pool, conns |-> conns]
                       ELSE OnStdioCallRejected(pool, conns, req[r].cur)
              cs == IF out = "ok" THEN after.conns ELSE Unclean(after.conns, req[r].cur)
          IN Commit(r, AfterCall([rq |-> [req[r] EXCEPT !.outcome = out],
                                  pool |-> after.pool, conns |-> cs],
                                 StdioFailure(out), secrets))

\* The fetch of callHttpUpstream resolves with the status line and headers
\* of the response (lines 462-473); the finally clause clears the timer of
\* the deadline (line 481) and the body is awaited (lines 484-505).
HeadersReturn(r) ==
  /\ Quiet
  /\ req[r].pc = "fetching"
  /\ req' = [req EXCEPT ![r].pc = "reading"]
  /\ UNCHANGED <<stream, listening, client, config, secrets, pool, conns, arrivals>>

\* The call of callHttpUpstream settles: the fetch is rejected, or the body
\* of the response has been read.  resp is [kind, status, www]: a result, a
\* non-2xx status (with its www-authenticate), a JSON-RPC error or the abort
\* of the fetch at the deadline.
FetchReturn(r, Responses) ==
  /\ Quiet
  /\ req[r].pc \in {"fetching", "reading"}
  /\ UNCHANGED <<stream, listening, client, config, secrets, arrivals>>
  /\ \E resp \in Responses :
       /\ resp.kind = "timed out" => req[r].pc = "fetching"
       /\ LET rq == [req[r] EXCEPT !.outcome = resp.kind, !.upstatus = resp.status,
                       !.upwww = resp.www]
              single == Len(listUpstreams(rq.cfg, rq.filter)) = 1
          IN IF resp.kind = "http" /\ resp.status \in {401, 403}
                  /\ (rq.method \in CallMethods \/ single)
             THEN Commit(r, [Ctx(r) EXCEPT !.rq = RespondChallenge(rq, resp.status, resp.www)])
             ELSE Commit(r, AfterCall([Ctx(r) EXCEPT !.rq = rq],
                                      IF resp.kind = "ok" THEN "" ELSE resp.kind, secrets))

\* MCPX_UPSTREAM_TIMEOUT_MS have passed since the outbound call of request r
\* began.  The timer of callHttpUpstream is armed until the fetch settles
\* (lines 457-482): it aborts a fetch that has not.  The timer of withTimeout
\* is armed while the client method runs (lines 264-279, 400-427): it rejects
\* the call.  No timer is armed while the body of a response is read nor
\* while getStdioConnection is awaited (line 400).
DeadlineElapses(r) ==
  /\ Quiet
  /\ req[r].pc \in {"fetching", "reading", "connecting", "calling"}
  /\ ~req[r].elapsed
  /\ UNCHANGED <<stream, listening, client, config, secrets, arrivals>>
  /\ LET rq == [req[r] EXCEPT !.elapsed = TRUE] IN
     CASE req[r].pc = "fetching" ->
            Commit(r, AfterCall([Ctx(r) EXCEPT !.rq = [rq EXCEPT !.outcome = "timed out"]],
                                "timed out", secrets))
       [] req[r].pc = "calling" ->
            LET after == OnStdioCallRejected(pool, conns, req[r].cur) IN
            Commit(r, AfterCall([rq |-> [rq EXCEPT !.outcome = "timeout"], pool |-> after.pool,
                                 conns |-> Unclean(after.conns, req[r].cur)],
                                StdioFailure("timeout"), secrets))
       [] OTHER -> Commit(r, [Ctx(r) EXCEPT !.rq = rq])

\* The response has been sent; the slot takes the next request.
Finish(r) ==
  /\ Quiet
  /\ req[r].pc = "done"
  /\ req' = [req EXCEPT ![r] = IdleRequest]
  /\ UNCHANGED <<stream, listening, client, config, secrets, pool, conns, arrivals>>

\* -------------------------------------------------------------- environment

\* client.connect resolves: the child is up and initialized.
ConnectOk(c) ==
  /\ Quiet
  /\ conns[c].state = "connecting"
  /\ conns' = [conns EXCEPT ![c].state = "ready"]
  /\ UNCHANGED <<stream, listening, client, config, secrets, pool, req, arrivals>>

\* client.connect rejects: the spawn or the handshake failed.
ConnectFail(c) ==
  /\ Quiet
  /\ conns[c].state = "connecting"
  /\ conns' = Unclean([conns EXCEPT ![c].state = "failed", ![c].err = "connect failed"],
                      conns[c].name)
  /\ UNCHANGED <<stream, listening, client, config, secrets, pool, req, arrivals>>

\* The child process of an established connection exits.
ChildExit(c) ==
  /\ Quiet
  /\ conns[c].state = "ready"
  /\ conns' = [conns EXCEPT ![c].state = "exited"]
  /\ UNCHANGED <<stream, listening, client, config, secrets, pool, req, arrivals>>

\* closeStdioConnection, line 310: the promise has resolved and
\* transport.close() returns.
TransportClosed(c) ==
  /\ Quiet
  /\ conns[c].closing
  /\ conns[c].state \in {"ready", "exited"}
  /\ conns' = [conns EXCEPT ![c].state = "closed"]
  /\ UNCHANGED <<stream, listening, client, config, secrets, pool, req, arrivals>>

\* The "close" handler without its loop: no entry is closed.
closeNone(p, cs) == cs

\* The loop of the "close" handler: closeStdioConnection on every entry of
\* the pool.
RECURSIVE closeAll(_, _)
closeAll(p, cs) ==
  IF p = <<>> THEN cs ELSE closeAll(Tail(p), closeStdioConnection(cs, Head(p).conn))

\* The HTTP server emits "close": every entry is closed without waiting and
\* the pool is cleared.  A handler whose socket is gone may still be running.
Shutdown ==
  /\ Quiet
  /\ listening
  /\ listening' = FALSE
  /\ conns' = closeAll(pool, conns)
  /\ pool' = <<>>
  /\ UNCHANGED <<stream, client, config, secrets, req, arrivals>>

\* saveConfig by the CLI or the desktop app: the file is replaced.  A
\* connection whose fingerprint is no longer the configured one has seen the
\* fingerprint change.
SaveConfig(Configs) ==
  /\ Quiet
  /\ \E c \in Configs :
       /\ c # config
       /\ config' = c
       /\ conns' = [i \in 1..Len(conns) |->
            IF ~HasServer(c, conns[i].name) \/ ~HasServer(config, conns[i].name)
               \/ specFingerprint(SpecOf(c, conns[i].name)) # specFingerprint(SpecOf(config, conns[i].name))
            THEN [conns[i] EXCEPT !.clean = FALSE] ELSE conns[i]]
  /\ UNCHANGED <<stream, listening, client, secrets, pool, req, arrivals>>

\* A secret is stored or removed (mcpx secret set / rm).
SetSecret(SecretNames) ==
  /\ Quiet
  /\ \E n \in SecretNames : n \notin secrets /\ secrets' = secrets \cup {n}
  /\ UNCHANGED <<stream, listening, client, config, pool, conns, req, arrivals>>

RemoveSecret(SecretNames) ==
  /\ Quiet
  /\ \E n \in SecretNames : n \in secrets /\ secrets' = secrets \ {n}
  /\ UNCHANGED <<stream, listening, client, config, pool, conns, req, arrivals>>

\* --------------------------------------------------------- the SSE reader

\* The text of a data: line after the prefix is a sequence of tokens; the
\* lines of an event are joined with the token "\n".
Newline == "\n"

\* A line of the body: data:<text>, the empty line, or any other line
\* (event:, id:, a comment).
DataLine(text) == [kind |-> "data", text |-> text]
BlankLine == [kind |-> "blank", text |-> <<>>]
OtherLine == [kind |-> "other", text |-> <<>>]

\* Values of JSON.parse: an object with its id ("null" when it has none),
\* or null.  null is also what the reader holds and returns for no payload.
JsonObject(id) == [json |-> "object", id |-> id]
JsonNull == [json |-> "null", id |-> "null"]

\* dataLines.join("\n")
RECURSIVE JoinLines(_)
JoinLines(dataLines) ==
  IF dataLines = <<>> THEN <<>>
  ELSE IF Len(dataLines) = 1 THEN dataLines[1]
  ELSE dataLines[1] \o <<Newline>> \o JoinLines(Tail(dataLines))

\* String.prototype.trim on the joined text: the newlines at both ends go.
RECURSIVE Trim(_)
Trim(text) ==
  IF text = <<>> THEN <<>>
  ELSE IF Head(text) = Newline THEN Trim(Tail(text))
  ELSE IF text[Len(text)] = Newline THEN Trim(SubSeq(text, 1, Len(text) - 1))
  ELSE text

\* JSON.parse: white space between the tokens is skipped; the text is an
\* object with or without an id, or null, or it does not parse.
JsonParse(text) ==
  LET t == SelectSeq(text, LAMBDA tok : tok # Newline) IN
  IF t = <<"{", "id:1", "}">> THEN [ok |-> TRUE, v |-> JsonObject("1")]
  ELSE IF t = <<"{", "id:2", "}">> THEN [ok |-> TRUE, v |-> JsonObject("2")]
  ELSE IF t = <<"{", "}">> THEN [ok |-> TRUE, v |-> JsonObject("null")]
  ELSE IF t = <<"null">> THEN [ok |-> TRUE, v |-> JsonNull]
  ELSE [ok |-> FALSE, v |-> JsonNull]

\* A reader that takes the first event that parses, whatever its id.
consumeEventAnyId(dataLines, latestPayload, expectedId) ==
  LET parsed == JsonParse(Trim(JoinLines(dataLines))) IN
  IF parsed.ok
  THEN [matched |-> parsed.v, latest |-> parsed.v]
  ELSE [matched |-> JsonNull, latest |-> latestPayload]

\* consumeEvent: matched is what it returns (null for no match), latest is
\* latestPayload afterwards.  parsed.id of null throws into the catch, after
\* latestPayload was assigned.
consumeEvent(dataLines, latestPayload, expectedId) ==
  LET combined == Trim(JoinLines(dataLines))
      parsed == JsonParse(combined)
  IN IF dataLines = <<>> \/ combined = <<>> \/ combined = <<"[DONE]">> \/ ~parsed.ok
     THEN [matched |-> JsonNull, latest |-> latestPayload]
     ELSE IF parsed.v.json = "object" /\ parsed.v.id = expectedId
          THEN [matched |-> parsed.v, latest |-> parsed.v]
          ELSE [matched |-> JsonNull, latest |-> parsed.v]

\* No response is being read.
NoStream ==
  [pc |-> "off", lines |-> <<>>, terminated |-> TRUE, expectedId |-> "null", pos |-> 0,
   dataLines |-> <<>>, latestPayload |-> JsonNull, result |-> JsonNull]

\* The lines of the body that end with a newline.
Terminated(st) == IF st.terminated THEN Len(st.lines) ELSE Len(st.lines) - 1

\* readSseJsonRpcResponse, lines 569-591: the next line of the buffer.
ReadLine ==
  /\ stream.pc = "reading"
  /\ stream.pos < Terminated(stream)
  /\ LET line == stream.lines[stream.pos + 1]
         st == [stream EXCEPT !.pos = @ + 1]
     IN IF line.kind = "data"
        THEN stream' = [st EXCEPT !.dataLines = Append(@, line.text)]
        ELSE IF line.kind = "blank"
        THEN LET c == consumeEvent(st.dataLines, st.latestPayload, st.expectedId) IN
             IF c.matched # JsonNull
             THEN stream' = [st EXCEPT !.dataLines = <<>>, !.latestPayload = c.latest,
                                       !.result = c.matched, !.pc = "returned"]
             ELSE stream' = [st EXCEPT !.dataLines = <<>>, !.latestPayload = c.latest]
        ELSE stream' = st
  /\ UNCHANGED <<listening, client, config, secrets, pool, conns, req, arrivals>>

\* readSseJsonRpcResponse, lines 594-606: the body is done; what is left in
\* the buffer is the last line.
ReadEnd ==
  /\ stream.pc = "reading"
  /\ stream.pos = Terminated(stream)
  /\ LET finalData == ~stream.terminated /\ stream.lines[Len(stream.lines)].kind = "data"
         dataLines == IF finalData
                      THEN Append(stream.dataLines, stream.lines[Len(stream.lines)].text)
                      ELSE stream.dataLines
         c == consumeEvent(dataLines, stream.latestPayload, stream.expectedId)
     IN stream' = [stream EXCEPT !.pos = Len(stream.lines), !.dataLines = <<>>,
                     !.latestPayload = c.latest,
                     !.result = IF c.matched # JsonNull THEN c.matched ELSE c.latest,
                     !.pc = "returned"]
  /\ UNCHANGED <<listening, client, config, secrets, pool, conns, req, arrivals>>

\* ------------------------------------------------------ the client adapters

SrvCustom == <<"c">>

\* The names that the servers object of the client file may hold.
SyncNames == {SrvA, SrvB, SrvCustom}

\* servers[name] === undefined.
NoEntry == [type |-> "", url |-> <<>>, token |-> ""]

\* An entry written by the user of the client.
UserEntry == [type |-> "stdio", url |-> <<>>, token |-> ""]

\* getGatewayUrl and buildManagedEntries: the entry that points the client
\* to the gateway for the upstream name.
GatewayUrl == <<"h", "/", "m", "c", "p">>
ManagedEntry(name, localToken) ==
  [type |-> "http", token |-> localToken,
   url |-> GatewayUrl \o <<"?", "upstream", "=">> \o encodeURIComponent(name)]

buildManagedEntries(cfg, localToken) ==
  [i \in 1..Len(cfg) |-> [name |-> cfg[i].name, entry |-> ManagedEntry(cfg[i].name, localToken)]]

\* managedIndex.managed[clientId].entries: the fingerprint under each name,
\* NoEntry for a name that is not listed.
getManagedEntryNames(index) == {n \in SyncNames : index[n] # NoEntry}
isManagedEntry(index, entryName) == index[entryName] # NoEntry

\* An adapter that would leave the entries of removed upstreams in the file.
pruneNothing(index, servers, keepEntryNames) == servers

\* pruneStaleManagedEntries: the entries listed in the index and not kept are
\* deleted from servers.
pruneStaleManagedEntries(index, servers, keepEntryNames) ==
  [n \in SyncNames |->
     IF n \in getManagedEntryNames(index) /\ n \notin keepEntryNames THEN NoEntry
     ELSE servers[n]]

\* ensureManagedEntryWritable: TRUE when there is a conflict, an entry under
\* the name that the index does not list.
ensureManagedEntryWritable(index, entryName, existingValue) ==
  IF existingValue = NoEntry THEN FALSE
  ELSE ~isManagedEntry(index, entryName)

\* setManagedEntries: the index lists the entries just written, by the
\* fingerprint of what was written.
setManagedEntries(entries) ==
  [n \in SyncNames |->
     IF \E i \in 1..Len(entries) : entries[i].name = n
     THEN (CHOOSE e \in {entries[i] : i \in 1..Len(entries)} : e.name = n).entry
     ELSE NoEntry]

\* VsCodeAdapter.syncGateway on cl, the client file and the index: an error
\* that writes nothing when an unmanaged entry has the name of an upstream;
\* else the stale entries are pruned, the managed entries assigned, the file
\* and the index written.  before, repeat and pruned record the file and
\* index before the sync, whether the sync repeats a successful sync of the
\* same configuration, and whether an entry has been pruned.
syncGateway(cl, managedEntries) ==
  LET managedNames == {managedEntries[i].name : i \in 1..Len(managedEntries)}
      conflict == \E n \in managedNames :
                    ensureManagedEntryWritable(cl.index, n, cl.servers[n])
      pruned == pruneStaleManagedEntries(cl.index, cl.servers, managedNames)
      servers == [n \in SyncNames |->
                    IF n \in managedNames THEN setManagedEntries(managedEntries)[n]
                    ELSE pruned[n]]
      noted == [cl EXCEPT !.repeat = cl.last = "SYNCED" /\ ~cl.pending,
                  !.before = [servers |-> cl.servers, index |-> cl.index]]
  IN IF conflict THEN [noted EXCEPT !.last = "ERROR"]
     ELSE [noted EXCEPT !.last = "SYNCED", !.pending = FALSE, !.servers = servers,
             !.index = setManagedEntries(managedEntries),
             !.pruned = @ \/ pruned # cl.servers]

\* The client file and the index before the first sync: the entries of the
\* user, none managed.
ClientWith(userNames) ==
  [servers |-> [n \in SyncNames |-> IF n \in userNames THEN UserEntry ELSE NoEntry],
   index |-> [n \in SyncNames |-> NoEntry],
   last |-> "", pending |-> FALSE, repeat |-> FALSE, pruned |-> FALSE, user |-> userNames,
   before |-> [servers |-> [n \in SyncNames |-> NoEntry],
               index |-> [n \in SyncNames |-> NoEntry]]]

NoClient == ClientWith({})

\* mcpx sync: syncAllClients with the saved configuration.
SyncAllClients ==
  /\ client' = syncGateway(client, buildManagedEntries(loadConfig(config), ExpectedToken))
  /\ UNCHANGED <<stream, listening, config, secrets, pool, conns, req, arrivals>>

\* mcpx add: addServer and saveConfig.
AddServer(Names0) ==
  /\ \E n \in Names0 :
       /\ ~HasServer(config, n)
       /\ config' = Append(config, [name |-> n, spec |-> HttpSpec("http://up", <<>>)])
  /\ client' = [client EXCEPT !.pending = TRUE]
  /\ UNCHANGED <<stream, listening, secrets, pool, conns, req, arrivals>>

\* mcpx remove: removeServer and saveConfig.
RemoveServer(Names0) ==
  /\ \E n \in Names0 :
       /\ HasServer(config, n)
       /\ config' = SelectSeq(config, LAMBDA e : e.name # n)
  /\ client' = [client EXCEPT !.pending = TRUE]
  /\ UNCHANGED <<stream, listening, secrets, pool, conns, req, arrivals>>

\* ------------------------------------------------- the pool specification

\* Two stdio upstreams; the configuration file is rewritten between two
\* versions that change the command of both.
PoolConfig(version) ==
  << [name |-> SrvA, spec |-> StdioSpec(version, <<>>)],
     [name |-> SrvB, spec |-> StdioSpec(version, <<>>)] >>

PoolConfigs == {PoolConfig("node-2")}

\* A request whose body is one request object, or none for a GET.
Input(hm, tok, auth, filter, method, param) ==
  [hm |-> hm, tok |-> tok, auth |-> auth, filter |-> filter, body |-> SmallBody,
   batch |-> FALSE, sse |-> FALSE,
   elems |-> IF hm = "GET" THEN <<>> ELSE << Element(method, param) >>]

PoolInputs ==
  { Input("POST", ExpectedToken, <<>>, None, "tools/list", <<>>),
    Input("POST", ExpectedToken, <<>>, None, "tools/call", SrvB \o <<Dot, "e">>) }

StdioOutcomes == {"ok", "rpc", "transport", "timeout"}

Init ==
  /\ config = PoolConfig("node-1")
  /\ secrets = {}
  /\ pool = <<>>
  /\ conns = <<>>
  /\ req = [r \in Slots |-> IdleRequest]
  /\ arrivals = 0
  /\ listening = TRUE
  /\ stream = NoStream
  /\ client = NoClient

Next ==
  \/ \E r \in Slots : Receive(r, PoolInputs)
  \/ \E r \in Slots : ReconcileResume(r)
  \/ \E r \in Slots : ConnectReturn(r)
  \/ \E r \in Slots : CallReturn(r, {"ok"})
  \/ \E r \in Slots : Finish(r)
  \/ \E c \in 1..Len(conns) : ConnectOk(c)
  \/ \E c \in 1..Len(conns) : TransportClosed(c)
  \/ SaveConfig(PoolConfigs)

Spec == Init /\ [][Next]_vars

\* ------------------------------------------------ the stdio specification

\* One stdio upstream whose connect may fail, whose child may exit and whose
\* calls may end in any of the four ways.
StdioConfig == << [name |-> SrvB, spec |-> StdioSpec("node-1", <<>>)] >>

StdioInputs ==
  { Input("POST", ExpectedToken, <<>>, None, "tools/list", <<>>),
    Input("POST", ExpectedToken, <<>>, None, "tools/call", <<"e">>),
    Input("POST", ExpectedToken, <<>>, None, "resources/read", <<"u">>) }

InitStdio ==
  /\ config = StdioConfig
  /\ secrets = {}
  /\ pool = <<>>
  /\ conns = <<>>
  /\ req = [r \in Slots |-> IdleRequest]
  /\ arrivals = 0
  /\ listening = TRUE
  /\ stream = NoStream
  /\ client = NoClient

NextStdio ==
  \/ \E r \in Slots : Receive(r, StdioInputs)
  \/ \E r \in Slots : ConnectReturn(r)
  \/ \E r \in Slots : CallReturn(r, StdioOutcomes)
  \/ \E r \in Slots : Finish(r)
  \/ \E c \in 1..Len(conns) : ConnectOk(c)
  \/ \E c \in 1..Len(conns) : ConnectFail(c)
  \/ \E c \in 1..Len(conns) : ChildExit(c)

SpecStdio == InitStdio /\ [][NextStdio]_vars

\* ------------------------------------------------- the HTTP specification

\* Configurations of HTTP upstreams: two upstreams that configure an
\* Authorization header (one key in lower case), one upstream alone, and a
\* server name that contains '.'.
HttpConfigAuth ==
  << [name |-> SrvA,
      spec |-> HttpSpec("http://a", << <<"authorization", <<"Bearer", "cfg-a">>>> >>)],
     [name |-> SrvB,
      spec |-> HttpSpec("http://b", << <<"Authorization", <<"Bearer", "cfg-b">>>> >>)] >>

HttpConfigSingle == << [name |-> SrvA, spec |-> HttpSpec("http://a", <<>>)] >>

HttpConfigDotted ==
  << [name |-> SrvDotted, spec |-> HttpSpec("http://ab", <<>>)],
     [name |-> SrvA, spec |-> HttpSpec("http://a", <<>>)] >>

HttpConfigs == {HttpConfigAuth, HttpConfigSingle, HttpConfigDotted}

ClientBearer == <<"Bearer", "client-token">>
LocalBearer == <<"Bearer", ExpectedToken>>

HttpInputs ==
  { Input("POST", ExpectedToken, <<>>, None, "tools/list", <<>>),
    Input("POST", ExpectedToken, <<>>, SrvA, "tools/list", <<>>),
    Input("POST", ExpectedToken, ClientBearer, None, "tools/call", SrvA \o <<Dot, "e">>),
    Input("POST", ExpectedToken, ClientBearer, SrvB, "tools/call", <<"e">>),
    Input("POST", "", LocalBearer, None, "tools/call", SrvA \o <<Dot, "e">>),
    Input("POST", ExpectedToken, <<>>, SrvA, "resources/read", <<"f", ":", "/", "x", ".", "t">>),
    Input("POST", ExpectedToken, <<>>, SrvA, "resources/read", <<"u">>),
    Input("POST", ExpectedToken, <<>>, None, "resources/read",
          McpxScheme \o SrvA \o <<Slash>> \o encodeURIComponent(<<"f", ":", "/", "x", ".", "t">>)),
    Input("POST", "", <<>>, None, "tools/list", <<>>),
    Input("POST", "", <<"Bearer", "wrong">>, None, "tools/list", <<>>),
    Input("POST", "", LocalBearer \o <<"x">>, None, "tools/list", <<>>),
    Input("GET", "", <<>>, None, "", <<>>),
    Input("GET", ExpectedToken, <<>>, None, "", <<>>) }

Response(kind, status, www) == [kind |-> kind, status |-> status, www |-> www]

\* The forms of the www-authenticate header of an upstream.
WwwQuoted == <<TextSeg("Bearer "), RmSeg(TRUE, UpstreamResourceMetadataUrl)>>
WwwUnquoted == <<TextSeg("Bearer "), RmSeg(FALSE, UpstreamResourceMetadataUrl)>>
WwwNoParam == <<TextSeg("Bearer realm=up")>>

HttpResponses ==
  { Response("ok", 200, <<>>),
    Response("rpc", 200, <<>>),
    Response("http", 401, WwwQuoted),
    Response("http", 401, WwwUnquoted),
    Response("http", 403, WwwNoParam),
    Response("http", 401, <<>>) }

InitHttp ==
  /\ config \in HttpConfigs
  /\ secrets = {}
  /\ pool = <<>>
  /\ conns = <<>>
  /\ req = [r \in Slots |-> IdleRequest]
  /\ arrivals = 0
  /\ listening = TRUE
  /\ stream = NoStream
  /\ client = NoClient

NextHttp ==
  \/ \E r \in 1..FewSlots : Receive(r, HttpInputs)
  \/ \E r \in 1..FewSlots : ReceiveListed(r)
  \/ \E r \in Slots : FetchReturn(r, HttpResponses)
  \/ \E r \in Slots : Finish(r)

SpecHttp == InitHttp /\ [][NextHttp]_vars

\* ----------------------------------------------- the secret specification

\* An HTTP upstream and a stdio upstream that both refer to the secret k,
\* which is stored and removed while requests are served.
SecretK == "k"

SecretConfig ==
  << [name |-> SrvA,
      spec |-> HttpSpec("http://a", << <<"Authorization", <<SecretPrefix, SecretK>>>> >>)],
     [name |-> SrvB,
      spec |-> StdioSpec("node-1", << <<"API_KEY", <<SecretPrefix, SecretK>>>> >>)] >>

SecretInputs ==
  { Input("POST", ExpectedToken, <<>>, None, "tools/call", SrvA \o <<Dot, "e">>),
    Input("POST", ExpectedToken, <<>>, None, "tools/call", SrvB \o <<Dot, "e">>),
    Input("POST", ExpectedToken, <<>>, None, "tools/list", <<>>) }

InitSecret ==
  /\ config = SecretConfig
  /\ secrets = {}
  /\ pool = <<>>
  /\ conns = <<>>
  /\ req = [r \in Slots |-> IdleRequest]
  /\ arrivals = 0
  /\ listening = TRUE
  /\ stream = NoStream
  /\ client = NoClient

NextSecret ==
  \/ \E r \in 1..FewSlots : Receive(r, SecretInputs)
  \/ \E r \in Slots : ConnectReturn(r)
  \/ \E r \in Slots : CallReturn(r, {"ok"})
  \/ \E r \in Slots : FetchReturn(r, {Response("ok", 200, <<>>)})
  \/ \E r \in Slots : Finish(r)
  \/ \E c \in 1..Len(conns) : ConnectOk(c)
  \/ SetSecret({SecretK})
  \/ RemoveSecret({SecretK})

SpecSecret == InitSecret /\ [][NextSecret]_vars

\* ---------------------------------------------- the catalog specification

\* The configuration is rewritten while lists are served: the stdio upstream
\* b, whose environment refers to the secret k, is added after or before the
\* HTTP upstream a, and removed again.  The secret is stored or it is not.
CatalogAB ==
  CatalogA \o << [name |-> SrvB,
                  spec |-> StdioSpec("node-1", << <<"API_KEY", <<SecretPrefix, SecretK>>>> >>)] >>

CatalogBA == << CatalogAB[2], CatalogAB[1] >>

CatalogConfigs == {CatalogA, CatalogAB, CatalogBA}

CatalogInputs ==
  { Input("POST", ExpectedToken, <<>>, None, "tools/list", <<>>),
    Input("POST", ExpectedToken, <<>>, SrvA, "tools/list", <<>>),
    Input("POST", ExpectedToken, <<>>, None, "resources/list", <<>>),
    Input("POST", ExpectedToken, <<>>, SrvB, "prompts/list", <<>>) }

CatalogResponses ==
  { Response("ok", 200, <<>>),
    Response("http", 401, <<>>),
    Response("http", 500, <<>>),
    Response("timed out", 0, <<>>) }

CatalogOutcomes == {"ok", "rpc"}

\* Bounds on the requests that the catalog specification serves, and on
\* those it serves at a time.
CatalogArrivals == 2
CatalogSlots == 1

ReceiveCatalog(r) == arrivals < CatalogArrivals /\ Receive(r, CatalogInputs)

InitCatalog ==
  /\ config = CatalogA
  /\ secrets \in SUBSET {SecretK}
  /\ pool = <<>>
  /\ conns = <<>>
  /\ req = [r \in Slots |-> IdleRequest]
  /\ arrivals = 0
  /\ listening = TRUE
  /\ stream = NoStream
  /\ client = NoClient

NextCatalog ==
  \/ \E r \in 1..CatalogSlots : ReceiveCatalog(r)
  \/ \E r \in Slots : ReconcileResume(r)
  \/ \E r \in Slots : ConnectReturn(r)
  \/ \E r \in Slots : CallReturn(r, CatalogOutcomes)
  \/ \E r \in Slots : FetchReturn(r, CatalogResponses)
  \/ \E r \in Slots : Finish(r)
  \/ \E c \in 1..Len(conns) : ConnectOk(c)
  \/ \E c \in 1..Len(conns) : ConnectFail(c)
  \/ \E c \in 1..Len(conns) : TransportClosed(c)
  \/ SaveConfig(CatalogConfigs)

SpecCatalog == InitCatalog /\ [][NextCatalog]_vars

\* ------------------------------------------------ the front specification

\* The request handler of POST /mcp before one HTTP upstream: bodies at and
\* around the limit, single request objects and batches, with and without
\* text/event-stream in Accept.
Post(body, batch, sse, elems) ==
  [hm |-> "POST", tok |-> ExpectedToken, auth |-> <<>>, filter |-> None, body |-> body,
   batch |-> batch, sse |-> sse, elems |-> elems]

Chunk(ascii, wide, astral) == [ascii |-> ascii, wide |-> wide, astral |-> astral]

\* Bodies of MaxBodyLength bytes, of one byte more in ASCII, of one byte more
\* with one character of three bytes, of one code unit more in two chunks,
\* and of MaxBodyLength code units in astral characters.
FrontBodies ==
  { << Chunk(MaxBodyLength, 0, 0) >>,
    << Chunk(MaxBodyLength + 1, 0, 0) >>,
    << Chunk(MaxBodyLength - 2, 1, 0) >>,
    << Chunk(MaxBodyLength - 1, 0, 0), Chunk(1, 1, 0) >>,
    << Chunk(0, 0, MaxBodyLength \div 2) >> }

Ping == Element("ping", <<>>)
Initialized == Element("notifications/initialized", <<>>)
ListTools == Element("tools/list", <<>>)
CallTool == Element("tools/call", <<"e">>)

FrontInputs ==
  { Post(SmallBody, FALSE, FALSE, <<Ping>>),
    Post(SmallBody, FALSE, FALSE, <<Initialized>>),
    Post(SmallBody, FALSE, FALSE, <<ListTools>>),
    Post(SmallBody, FALSE, TRUE, <<CallTool>>),
    Post(SmallBody, TRUE, FALSE, <<>>),
    Post(SmallBody, TRUE, FALSE, <<Ping>>),
    Post(SmallBody, TRUE, FALSE, <<Initialized, Ping>>),
    Post(SmallBody, TRUE, FALSE, <<ListTools, Initialized, CallTool>>),
    Post(SmallBody, TRUE, TRUE, <<CallTool, Ping>>),
    [Post(SmallBody, FALSE, FALSE, <<Ping>>) EXCEPT !.tok = ""] }
  \cup { Post(body, FALSE, FALSE, <<Ping>>) : body \in FrontBodies }
  \cup { [Post(body, FALSE, FALSE, <<Ping>>) EXCEPT !.tok = ""] : body \in FrontBodies }

FrontResponses ==
  { Response("ok", 200, <<>>),
    Response("rpc", 200, <<>>),
    Response("http", 401, <<>>) }

\* Bound on the requests that the front specification serves.
FrontArrivals == 2

ReceiveFront(r) == arrivals < FrontArrivals /\ Receive(r, FrontInputs)

InitFront ==
  /\ config = CatalogA
  /\ secrets = {}
  /\ pool = <<>>
  /\ conns = <<>>
  /\ req = [r \in Slots |-> IdleRequest]
  /\ arrivals = 0
  /\ listening = TRUE
  /\ stream = NoStream
  /\ client = NoClient

NextFront ==
  \/ \E r \in 1..FewSlots : ReceiveFront(r)
  \/ \E r \in Slots : BatchNext(r)
  \/ \E r \in Slots : FetchReturn(r, FrontResponses)
  \/ \E r \in Slots : Finish(r)

SpecFront == InitFront /\ [][NextFront]_vars

\* --------------------------------------------- the deadline specification

\* Calls routed to an HTTP upstream and to a stdio upstream while time
\* passes: an upstream may answer late or not at all.
DeadlineInputs ==
  { Input("POST", ExpectedToken, <<>>, None, "tools/call", SrvA \o <<Dot, "e">>),
    Input("POST", ExpectedToken, <<>>, None, "tools/call", SrvB \o <<Dot, "e">>),
    Input("POST", ExpectedToken, <<>>, None, "tools/list", <<>>) }

InitDeadline ==
  /\ config = CatalogAB
  /\ secrets = {SecretK}
  /\ pool = <<>>
  /\ conns = <<>>
  /\ req = [r \in Slots |-> IdleRequest]
  /\ arrivals = 0
  /\ listening = TRUE
  /\ stream = NoStream
  /\ client = NoClient

NextDeadline ==
  \/ \E r \in 1..FewSlots : Receive(r, DeadlineInputs)
  \/ \E r \in Slots : HeadersReturn(r)
  \/ \E r \in Slots : FetchReturn(r, {Response("ok", 200, <<>>)})
  \/ \E r \in Slots : ConnectReturn(r)
  \/ \E r \in Slots : CallReturn(r, {"ok"})
  \/ \E r \in Slots : DeadlineElapses(r)
  \/ \E r \in Slots : Finish(r)
  \/ \E c \in 1..Len(conns) : ConnectOk(c)

SpecDeadline == InitDeadline /\ [][NextDeadline]_vars

\* ------------------------------------------------- the sync specification

\* Servers are added to and removed from the configuration and the clients
\* are synced, from a client file that holds entries of its user, some under
\* the names of upstreams.
InitSync ==
  /\ config = <<>>
  /\ secrets = {}
  /\ pool = <<>>
  /\ conns = <<>>
  /\ req = [r \in Slots |-> IdleRequest]
  /\ arrivals = 0
  /\ listening = TRUE
  /\ stream = NoStream
  /\ client \in {ClientWith(u) : u \in SUBSET {SrvCustom, SrvB}}

NextSync ==
  \/ AddServer({SrvA, SrvB})
  \/ RemoveServer({SrvA, SrvB})
  \/ SyncAllClients

SpecSync == InitSync /\ [][NextSync]_vars

\* ---------------------------------------------- the failure specification

\* One stdio upstream whose connect may fail while the configuration file
\* is rewritten between two versions of its command.
FailConfig(version) == << [name |-> SrvB, spec |-> StdioSpec(version, <<>>)] >>

FailConfigs == {FailConfig("node-1"), FailConfig("node-2")}

FailInputs == { Input("POST", ExpectedToken, <<>>, None, "tools/call", <<"e">>) }

InitFail ==
  /\ config = FailConfig("node-1")
  /\ secrets = {}
  /\ pool = <<>>
  /\ conns = <<>>
  /\ req = [r \in Slots |-> IdleRequest]
  /\ arrivals = 0
  /\ listening = TRUE
  /\ stream = NoStream
  /\ client = NoClient

NextFail ==
  \/ \E r \in Slots : Receive(r, FailInputs)
  \/ \E r \in Slots : ReconcileResume(r)
  \/ \E r \in Slots : ConnectReturn(r)
  \/ \E r \in Slots : CallReturn(r, {"ok"})
  \/ \E r \in Slots : Finish(r)
  \/ \E c \in 1..Len(conns) : ConnectOk(c)
  \/ \E c \in 1..Len(conns) : ConnectFail(c)
  \/ \E c \in 1..Len(conns) : TransportClosed(c)
  \/ SaveConfig(FailConfigs)

SpecFail == InitFail /\ [][NextFail]_vars

\* --------------------------------------------- the shutdown specification

\* Two stdio upstreams whose connects may fail; the server may shut down at
\* any moment, with connects and closes pending.
ShutdownArrivals == 2

ReceiveShutdown(r) == arrivals < ShutdownArrivals /\ Receive(r, PoolInputs)

InitShutdown ==
  /\ config = PoolConfig("node-1")
  /\ secrets = {}
  /\ pool = <<>>
  /\ conns = <<>>
  /\ req = [r \in Slots |-> IdleRequest]
  /\ arrivals = 0
  /\ listening = TRUE
  /\ stream = NoStream
  /\ client = NoClient

NextShutdown ==
  \/ \E r \in 1..FewSlots : ReceiveShutdown(r)
  \/ \E r \in Slots : ConnectReturn(r)
  \/ \E r \in Slots : CallReturn(r, {"ok"})
  \/ \E r \in Slots : Finish(r)
  \/ \E c \in 1..Len(conns) : ConnectOk(c)
  \/ \E c \in 1..Len(conns) : ConnectFail(c)
  \/ \E c \in 1..Len(conns) : TransportClosed(c)
  \/ Shutdown

SpecShutdown == InitShutdown /\ [][NextShutdown]_vars

\* ------------------------------------------------ the token specification

\* One HTTP upstream without configured headers; the client sends the local
\* token in x-mcpx-local-token, in Authorization, or in both, with several
\* schemes and spacings.  A header value is the result of split(" ").
TokenAuthorizations ==
  { <<>>, ClientBearer, LocalBearer, LocalBearer \o <<"x">>,
    <<"bearer", ExpectedToken>>, <<"BEARER", ExpectedToken>>,
    <<"Basic", ExpectedToken>>, <<"Bearer", "", ExpectedToken>> }

TokenInputs ==
  { Input("POST", tok, auth, None, "tools/call", <<"e">>) :
      tok \in {"", ExpectedToken}, auth \in TokenAuthorizations }

InitToken ==
  /\ config = HttpConfigSingle
  /\ secrets = {}
  /\ pool = <<>>
  /\ conns = <<>>
  /\ req = [r \in Slots |-> IdleRequest]
  /\ arrivals = 0
  /\ listening = TRUE
  /\ stream = NoStream
  /\ client = NoClient

NextToken ==
  \/ \E r \in 1..FewSlots : Receive(r, TokenInputs)
  \/ \E r \in Slots : FetchReturn(r, FrontResponses)
  \/ \E r \in Slots : Finish(r)

SpecToken == InitToken /\ [][NextToken]_vars

\* ---------------------------------------------- the routing specification

\* No, one or two HTTP upstreams; calls by every form of identifier, scoped
\* or not.
RouteConfigAB ==
  << [name |-> SrvA, spec |-> HttpSpec("http://a", <<>>)],
     [name |-> SrvB, spec |-> HttpSpec("http://b", <<>>)] >>

RouteConfigs == { <<>>, HttpConfigSingle, RouteConfigAB }

\* The identifiers: of a configured server, of one that may not be, of none.
RouteNames == { SrvA \o <<Dot, "e">>, SrvB \o <<Dot, "e">>, SrvCustom \o <<Dot, "e">>, <<"e">> }

RouteUris ==
  { McpxScheme \o SrvA \o <<Slash, "u">>, McpxScheme \o SrvB \o <<Slash, "u">>,
    McpxScheme \o SrvCustom \o <<Slash, "u">>, <<"u">> }

RouteInputs ==
  { Input("POST", ExpectedToken, <<>>, f, m, n) :
      f \in {None, SrvA, SrvB}, m \in {"tools/call", "prompts/get"}, n \in RouteNames }
  \cup
  { Input("POST", ExpectedToken, <<>>, f, "resources/read", u) :
      f \in {None, SrvA, SrvB}, u \in RouteUris }

RouteArrivals == 2

ReceiveRoute(r) == arrivals < RouteArrivals /\ Receive(r, RouteInputs)

InitRoute ==
  /\ config \in RouteConfigs
  /\ secrets = {}
  /\ pool = <<>>
  /\ conns = <<>>
  /\ req = [r \in Slots |-> IdleRequest]
  /\ arrivals = 0
  /\ listening = TRUE
  /\ stream = NoStream
  /\ client = NoClient

NextRoute ==
  \/ \E r \in 1..CatalogSlots : ReceiveRoute(r)
  \/ \E r \in Slots : FetchReturn(r, FrontResponses)
  \/ \E r \in Slots : Finish(r)

SpecRoute == InitRoute /\ [][NextRoute]_vars

\* --------------------------------------------- the snapshot specification

\* Batches served while the configuration file is rewritten: upstream b is
\* added to upstream a, or removed again.
SnapshotConfigs == {CatalogA, RouteConfigAB}

SnapshotInputs ==
  { Post(SmallBody, TRUE, FALSE, <<ListTools, ListTools>>),
    Post(SmallBody, TRUE, FALSE, <<CallTool, ListTools>>),
    Post(SmallBody, FALSE, FALSE, <<ListTools>>) }

SnapshotArrivals == 2

ReceiveSnapshot(r) == arrivals < SnapshotArrivals /\ Receive(r, SnapshotInputs)

InitSnapshot ==
  /\ config = CatalogA
  /\ secrets = {}
  /\ pool = <<>>
  /\ conns = <<>>
  /\ req = [r \in Slots |-> IdleRequest]
  /\ arrivals = 0
  /\ listening = TRUE
  /\ stream = NoStream
  /\ client = NoClient

NextSnapshot ==
  \/ \E r \in 1..FewSlots : ReceiveSnapshot(r)
  \/ \E r \in Slots : BatchNext(r)
  \/ \E r \in Slots : FetchReturn(r, FrontResponses)
  \/ \E r \in Slots : Finish(r)
  \/ SaveConfig(SnapshotConfigs)

SpecSnapshot == InitSnapshot /\ [][NextSnapshot]_vars

\* -------------------------------------------------- the SSE specification

\* Bound on the number of lines of a body.
MaxLines == 3

\* The lines a body is made of: whole objects with the ids 1 and 2 and
\* without id, an object in two data lines, text that is no JSON, the
\* [DONE] marker, null, the empty line and a line of another field.
SseLines ==
  { DataLine(<<"{", "id:1", "}">>), DataLine(<<"{", "id:2", "}">>), DataLine(<<"{", "}">>),
    DataLine(<<"{", "id:1">>), DataLine(<<"}">>), DataLine(<<"x">>),
    DataLine(<<"[DONE]">>), DataLine(<<"null">>), BlankLine, OtherLine }

SseBodies == UNION { [1..n -> SseLines] : n \in 0..MaxLines }

\* A 2xx text/event-stream response arrives for a call whose id is 1 or
\* null.  What follows the last newline is the last line; an empty rest is
\* no line.
InitSse ==
  /\ config = CatalogA
  /\ secrets = {}
  /\ pool = <<>>
  /\ conns = <<>>
  /\ req = [r \in Slots |-> IdleRequest]
  /\ arrivals = 0
  /\ listening = TRUE
  /\ client = NoClient
  /\ \E lines \in SseBodies, terminated \in BOOLEAN, expectedId \in {"1", "null"} :
       /\ ~terminated => (lines # <<>> /\ lines[Len(lines)] # BlankLine)
       /\ stream = [NoStream EXCEPT !.pc = "reading", !.lines = lines,
                                    !.terminated = terminated, !.expectedId = expectedId]

NextSse ==
  \/ ReadLine
  \/ ReadEnd

SpecSse == InitSse /\ [][NextSse]_vars

\* ------------------------------------------ the fingerprint specification

\* One stdio upstream with two env variables; the configuration file is
\* rewritten with the same variables in the other order, or with another
\* value.
FingerprintConfig(env) == << [name |-> SrvB, spec |-> StdioSpec("node-1", env)] >>

EnvA == <<"A", <<"1">>>>
EnvB == <<"B", <<"2">>>>
EnvB3 == <<"B", <<"3">>>>

FingerprintConfigs ==
  { FingerprintConfig(<<EnvA, EnvB>>), FingerprintConfig(<<EnvB, EnvA>>),
    FingerprintConfig(<<EnvA, EnvB3>>) }

InitFingerprint ==
  /\ config = FingerprintConfig(<<EnvA, EnvB>>)
  /\ secrets = {}
  /\ pool = <<>>
  /\ conns = <<>>
  /\ req = [r \in Slots |-> IdleRequest]
  /\ arrivals = 0
  /\ listening = TRUE
  /\ stream = NoStream
  /\ client = NoClient

NextFingerprint ==
  \/ \E r \in 1..FewSlots : Receive(r, FailInputs)
  \/ \E r \in Slots : ReconcileResume(r)
  \/ \E r \in Slots : ConnectReturn(r)
  \/ \E r \in Slots : CallReturn(r, {"ok"})
  \/ \E r \in Slots : Finish(r)
  \/ \E c \in 1..Len(conns) : ConnectOk(c)
  \/ \E c \in 1..Len(conns) : TransportClosed(c)
  \/ SaveConfig(FingerprintConfigs)

SpecFingerprint == InitFingerprint /\ [][NextFingerprint]_vars

\* ------------------------------------------------------------------ claims

\* Connection c was spawned for the fingerprint its name has in the saved
\* configuration, and since its creation that fingerprint has not changed and
\* no call on the name has failed.
CleanSpawn(c) ==
  /\ Spawned(conns[c]) /\ conns[c].clean
  /\ HasServer(config, conns[c].name)
  /\ conns[c].fp = specFingerprint(SpecOf(config, conns[c].name))

\* C1: while the fingerprint of an upstream is unchanged and no call on it
\* fails, the requests that use the upstream create exactly one connection:
\* no two connections of one name are both spawned for the current
\* fingerprint with no change and no failure since the first one was created.
C1_OneSpawnPerFingerprint ==
  \A i, j \in 1..Len(conns) :
    (i < j /\ conns[i].name = conns[j].name /\ CleanSpawn(i)) => ~CleanSpawn(j)

\* A request starts to await a stdio connection in this step.
Acquires(r) ==
  /\ req'[r].pc = "connecting"
  /\ req[r].pc # "connecting" \/ req[r].cur # req'[r].cur

\* C2: a request that acquires a stdio upstream while the connect of a
\* connection of the same name and fingerprint is pending gets that
\* connection, and the pool never holds two entries of one name.
C2_PendingConnectIsShared ==
  [][ /\ \A r \in Slots : \A c \in 1..Len(conns) :
           ( /\ Acquires(r)
             /\ conns[c].state = "connecting" /\ CleanSpawn(c)
             /\ conns[c].name = req'[r].cur
             /\ conns[c].fp = specFingerprint(SpecOf(req'[r].cfg, req'[r].cur)) )
           => req'[r].conn = c
      /\ \A i, j \in 1..Len(pool') : pool'[i].name = pool'[j].name => i = j ]_vars

\* The pool holds connection c.
Pooled(c) == \E i \in 1..Len(pool) : pool[i].conn = c

\* C3: when a call on an established stdio connection has failed with a
\* transport error and the error has been answered, the pool entry of the
\* upstream is removed and the close of its connection has been started.
C3_TransportErrorEvicts ==
  \A r \in Slots :
    (req[r].pc = "done" /\ req[r].outcome = "transport")
    => (~Pooled(req[r].conn) /\ conns[req[r].conn].closing)

\* C4: when a stdio call has exceeded the deadline and the timeout error has
\* been answered, the pool no longer holds the timed-out connection.
C4_TimeoutInvalidates ==
  \A r \in Slots :
    (req[r].pc = "done" /\ req[r].outcome = "timeout") => ~Pooled(req[r].conn)

\* The request has been routed: its outbound call is sent or answered.
Routed(r) == req[r].pc \in {"fetching", "connecting", "calling", "done"}

\* Request r has sent exactly one call, to upstream up with identifier ident.
SentOnly(r, up, ident) ==
  /\ Len(req[r].calls) = 1
  /\ req[r].calls[1].up = up
  /\ req[r].calls[1].ident = ident

\* C5: a tools/call by a name that tools/list returned under the same
\* configuration and scope is sent to the upstream that listed the tool, with
\* the local name the tool has there, also when names contain '.'.
C5_ListedToolRoundTrip ==
  \A r \in Slots :
    (req[r].listed /\ Routed(r)) => SentOnly(r, req[r].wantUp, req[r].wantLocal)

\* C6: a resources/read scoped with ?upstream=X whose uri is not of the form
\* mcpx://server/... is forwarded to X with the uri unchanged.
C6_FlatUriAcceptedAsIs ==
  \A r \in Slots :
    ( /\ Routed(r) /\ req[r].method = "resources/read"
      /\ authHeaderIsValid(req[r].tok, req[r].auth, ExpectedToken)
      /\ req[r].filter # None /\ HasServer(config, req[r].filter)
      /\ ~StartsWith(req[r].param, McpxScheme) )
    => SentOnly(r, req[r].filter, req[r].param)

\* The Authorization values that the configuration of upstream up sets.
ConfiguredAuthorization(cfg, up, store) ==
  WireHeader(MergeResolved(<<>>, SpecOf(cfg, up).pairs, store), "authorization")

\* C7: on an authorized POST, a client Authorization that is a bearer other
\* than the local token is the Authorization of every outbound HTTP call; with
\* Bearer <local token> the upstream receives its configured headers only.
C7_AuthorizationPassthrough ==
  \A r \in Slots : \A i \in 1..Len(req[r].calls) :
    (req[r].calls[i].transport = "http" /\ req[r].hm = "POST")
    => /\ ( /\ Len(req[r].auth) = 2 /\ req[r].auth[1] = "Bearer"
            /\ req[r].auth[2] # ExpectedToken )
          => req[r].calls[i].authorization = <<req[r].auth>>
       /\ req[r].auth = <<"Bearer", ExpectedToken>>
          => req[r].calls[i].authorization
               = ConfiguredAuthorization(req[r].cfg, req[r].calls[i].up, secrets)

\* The request was routed to an upstream for which a secret was missing.
MissingSecretCall(r) ==
  req[r].pc = "done" /\ req[r].method = "tools/call" /\ req[r].miss

\* The answer of C8: error -32000 "Secret not found" with status 200, no
\* call sent, no child spawned and nothing left in the pool.
SecretNotFoundAnswer(r) ==
  /\ req[r].status = 200 /\ req[r].code = -32000 /\ req[r].msg = "Secret not found"
  /\ req[r].calls = <<>>
  /\ req[r].conn # 0 => (~Pooled(req[r].conn) /\ ~Spawned(conns[req[r].conn]))

\* C8 as stated: every tools/call routed to an upstream with a missing secret
\* is answered "Secret not found" and the upstream is not contacted.
C8_MissingSecretAsStated ==
  \A r \in Slots : MissingSecretCall(r) => SecretNotFoundAnswer(r)

\* C8: a tools/call routed to an HTTP upstream with a missing header secret,
\* or to a stdio upstream with a missing env secret for which the call had to
\* create the connection, is answered -32000 "Secret not found" with status
\* 200, and the upstream is not contacted.
C8_MissingSecretNeverContacts ==
  \A r \in Slots :
    (MissingSecretCall(r)
       /\ (SpecOf(req[r].cfg, req[r].cur).transport = "stdio" => req[r].creator))
    => SecretNotFoundAnswer(r)

\* C8 happens: a tools/call had to create the connection of a stdio upstream
\* whose env secret was missing and was answered "Secret not found".
C8_Witness ==
  \E r \in Slots :
    /\ MissingSecretCall(r) /\ req[r].creator
    /\ SpecOf(req[r].cfg, req[r].cur).transport = "stdio"
    /\ req[r].code = -32000 /\ req[r].msg = "Secret not found"

\* C9: a 401 or 403 with a www-authenticate header from the single upstream
\* in scope is answered with the same status and a www-authenticate whose
\* resource_metadata is the gateway's own URL and never the upstream's.
C9_ChallengePointsToGateway ==
  \A r \in Slots :
    ( /\ req[r].pc = "done" /\ req[r].outcome = "http"
      /\ req[r].upstatus \in {401, 403} /\ req[r].upwww # <<>>
      /\ Len(listUpstreams(req[r].cfg, req[r].filter)) = 1 )
    => /\ req[r].status = req[r].upstatus
       /\ \E i \in 1..Len(req[r].www) :
            /\ req[r].www[i].k = "resource_metadata"
            /\ req[r].www[i].v = LocalResourceMetadataUrl(req[r].filter)
       /\ \A i \in 1..Len(req[r].www) :
            req[r].www[i].k = "resource_metadata"
            => req[r].www[i].v = LocalResourceMetadataUrl(req[r].filter)

\* C10: a request on /mcp is processed iff x-mcpx-local-token is the expected
\* token or Authorization is Bearer <expected token>; every other request is
\* answered 401 with error -32001, loads no configuration and calls no
\* upstream.
C10_LocalAuthGate ==
  \A r \in Slots :
    req[r].pc # "idle"
    => IF req[r].tok = ExpectedToken \/ req[r].auth = <<"Bearer", ExpectedToken>>
       THEN ~(req[r].status = 401 /\ req[r].code = -32001)
       ELSE /\ req[r].pc = "done" /\ req[r].status = 401 /\ req[r].code = -32001
            /\ req[r].calls = <<>> /\ req[r].cfg = <<>> /\ req[r].conn = 0

\* The names of the upstreams in the scope of request r, in the order of the
\* configuration file as it was at the dispatch of r.
ScopeAtDispatch(r) == Names(listUpstreams(req[r].file, req[r].filter))

ItemUpstreams(r) == {req[r].items[i].up : i \in 1..Len(req[r].items)}
FailedUpstreams(r) == {req[r].failed[i] : i \in 1..Len(req[r].failed)}

\* Request r is a list that has been answered with a normal result.
ListResult(r) ==
  /\ req[r].pc = "done" /\ req[r].method \in ListMethods
  /\ req[r].status = 200 /\ req[r].code = 0

\* C11: a tools/list lists the tools of exactly the upstreams that the
\* configuration file holds at the dispatch of the request (and that are in
\* its scope), whatever the file held at earlier requests: the upstreams of
\* the returned items are these upstreams less the ones whose call failed.
C11_ListReflectsConfigAtDispatch ==
  \A r \in Slots :
    ListResult(r) /\ req[r].method = "tools/list" =>
      ItemUpstreams(r) =
        {ScopeAtDispatch(r)[k] : k \in 1..Len(ScopeAtDispatch(r))} \ FailedUpstreams(r)

\* A tools/list dispatched after the upstream b was added returns tools of b.
C11_Witness ==
  \E r \in Slots :
    /\ ListResult(r) /\ req[r].method = "tools/list"
    /\ req[r].file # CatalogA /\ SrvB \in ItemUpstreams(r)

Position(cfg, name) == CHOOSE k \in 1..Len(cfg) : cfg[k].name = name
LocalPosition(method, item) ==
  CHOOSE k \in 1..Len(Catalog(item.up, method)) : Catalog(item.up, method)[k] = item.local

\* C12: in the result of a list, the items follow the order of the upstreams
\* in the configuration, and the items of one upstream the order in which
\* the upstream returned them.
C12_MergedOrderIsConfigOrder ==
  \A r \in Slots :
    ListResult(r) =>
      \A i, j \in 1..Len(req[r].items) :
        LET a == req[r].items[i]
            b == req[r].items[j]
        IN /\ HasServer(req[r].file, a.up)
           /\ i < j =>
                IF a.up = b.up
                THEN LocalPosition(req[r].method, a) < LocalPosition(req[r].method, b)
                ELSE Position(req[r].file, a.up) < Position(req[r].file, b.up)

\* A list over b then a has returned items of both.
C12_Witness ==
  \E r \in Slots :
    /\ ListResult(r) /\ req[r].file = CatalogBA
    /\ ItemUpstreams(r) = {SrvA, SrvB}

\* C13: while a list over two or more upstreams waits for an upstream, the
\* call to every upstream of its scope has been issued.
C13_ListCallsIssuedTogether ==
  \A r \in Slots :
    /\ req[r].method \in ListMethods
    /\ req[r].pc \in {"fetching", "connecting", "calling"}
    /\ Len(ScopeAtDispatch(r)) >= 2
    => \A k \in 1..Len(ScopeAtDispatch(r)) :
         \/ ScopeAtDispatch(r)[k] = req[r].cur
         \/ ScopeAtDispatch(r)[k] \in FailedUpstreams(r)
         \/ \E c \in 1..Len(req[r].calls) : req[r].calls[c].up = ScopeAtDispatch(r)[k]

ItemsOf(r, up) == LET From(item) == item.up = up IN SelectSeq(req[r].items, From)

\* C14: a list that has called its upstreams ends in a normal result that
\* holds all the items of every upstream whose call succeeded and none of an
\* upstream whose call failed; it ends otherwise only with the 401 or 403
\* of the one upstream of its scope.
C14_ListFailuresIsolated ==
  \A r \in Slots :
    req[r].pc = "done" /\ req[r].method \in ListMethods /\ req[r].cfg # <<>> =>
      IF req[r].status # 200
      THEN Len(ScopeAtDispatch(r)) = 1 /\ req[r].status \in {401, 403}
           /\ req[r].upstatus = req[r].status
      ELSE /\ req[r].code = 0
           /\ \A k \in 1..Len(ScopeAtDispatch(r)) :
                LET up == ScopeAtDispatch(r)[k] IN
                ItemsOf(r, up) = IF up \in FailedUpstreams(r) THEN <<>>
                                 ELSE ListItems(req[r].method, Len(ScopeAtDispatch(r)) = 1, up)

\* A list over two upstreams has returned the items of one while the call
\* to the other failed.
C14_Witness ==
  \E r \in Slots :
    /\ ListResult(r) /\ Len(ScopeAtDispatch(r)) = 2
    /\ FailedUpstreams(r) # {} /\ req[r].items # <<>>

Namespaced(r, item) ==
  /\ item.name = item.up \o <<Dot>> \o item.local
  /\ HasServer(req[r].file, item.up)

\* C15 as stated: every name that a tools/list without scope returns is
\* "<server>.<local>".
C15_UnscopedNamesNamespaced ==
  \A r \in Slots :
    ListResult(r) /\ req[r].method = "tools/list" /\ req[r].filter = None =>
      \A i \in 1..Len(req[r].items) : Namespaced(r, req[r].items[i])

\* C15: every name that a tools/list without scope returns is
\* "<server>.<local>" when the configuration holds two or more upstreams.
C15_UnscopedNamesNamespacedOverSeveral ==
  \A r \in Slots :
    /\ ListResult(r) /\ req[r].method = "tools/list" /\ req[r].filter = None
    /\ Len(req[r].file) >= 2
    => \A i \in 1..Len(req[r].items) : Namespaced(r, req[r].items[i])

C15_Witness ==
  \E r \in Slots :
    /\ ListResult(r) /\ req[r].method = "tools/list" /\ req[r].filter = None
    /\ Len(req[r].file) >= 2 /\ Len(req[r].items) >= 3

RECURSIVE TotalBytes(_)
TotalBytes(chunks) ==
  IF chunks = <<>> THEN 0 ELSE Utf8Bytes(Head(chunks)) + TotalBytes(Tail(chunks))

Authorized(r) == req[r].tok = ExpectedToken \/ req[r].auth = <<"Bearer", ExpectedToken>>

\* C16: an authorized POST is answered 413 exactly when its body is longer
\* than 2,000,000 bytes, and a request answered 413 has not been parsed or
\* dispatched: it has loaded no configuration, called no upstream and has
\* no response.
C16_RejectedIffOverTwoMillionBytes ==
  \A r \in Slots :
    req[r].pc # "idle" /\ req[r].hm = "POST" /\ Authorized(r) =>
      /\ req[r].status = 413 <=> TotalBytes(req[r].body) > MaxBodyLength
      /\ req[r].status = 413 =>
           /\ req[r].pc = "done" /\ req[r].pos = 0 /\ req[r].cfg = <<>>
           /\ req[r].calls = <<>> /\ req[r].responses = <<>>

\* C17: the responses of a request are in the order of the elements that
\* produced them, no element has produced two, and no response comes from a
\* notifications/initialized element.
C17_BatchResponsesInOrder ==
  \A r \in Slots :
    \A i \in 1..Len(req[r].responses) :
      /\ req[r].responses[i].src \in 1..req[r].pos
      /\ req[r].elems[req[r].responses[i].src].method # "notifications/initialized"
      /\ \A j \in 1..Len(req[r].responses) :
           i < j => req[r].responses[i].src < req[r].responses[j].src

\* A batch of three elements, the second a notification, has been answered
\* with the responses of the first and of the third.
C17_Witness ==
  \E r \in Slots :
    /\ req[r].pc = "done" /\ req[r].batch /\ Len(req[r].elems) = 3
    /\ req[r].elems[2].method = "notifications/initialized"
    /\ Len(req[r].responses) = 2
    /\ req[r].responses[1].src = 1 /\ req[r].responses[2].src = 3

\* C18: the body of a 200 response that is no event stream is one JSON
\* object when the request body was one request object and a JSON array
\* when it was a batch.
C18_ShapeFollowsRequestBody ==
  \A r \in Slots :
    req[r].pc = "done" /\ req[r].hm = "POST" /\ req[r].status = 200 /\ ~req[r].sse =>
      req[r].shape = IF req[r].batch THEN "array" ELSE "object"

\* C19: once the deadline of an outbound call has elapsed, the call has
\* returned or has failed: the request does not wait for it any more.
C19_DeadlineEndsEveryCall ==
  \A r \in Slots :
    req[r].elapsed => req[r].pc \notin {"fetching", "reading", "connecting", "calling"}

\* C20: after a successful sync of the configuration as it is, the client
\* file holds the managed entry of every configured upstream and no other
\* managed entry, and the index lists exactly the configured names; the
\* entries of the user are in the file as the user wrote them; and a sync
\* that repeats a successful sync succeeds and leaves file and index as they
\* were.
C20_SyncKeepsOneEntryPerUpstream ==
  /\ client.last = "SYNCED" /\ ~client.pending =>
       /\ \A n \in SyncNames :
            IF HasServer(config, n)
            THEN client.servers[n] = ManagedEntry(n, ExpectedToken)
            ELSE client.servers[n] = (IF n \in client.user THEN UserEntry ELSE NoEntry)
       /\ getManagedEntryNames(client.index) = {n \in SyncNames : HasServer(config, n)}
  /\ \A n \in client.user : client.servers[n] = UserEntry
  /\ client.repeat =>
       /\ client.last = "SYNCED"
       /\ client.servers = client.before.servers
       /\ client.index = client.before.index

\* A sync has pruned the entry of a removed upstream from a file that holds
\* an entry of the user, and has been run once more.
C20_Witness ==
  /\ client.last = "SYNCED" /\ ~client.pending /\ client.repeat /\ client.pruned
  /\ client.user # {} /\ config # <<>>

\* Pool entry e matches the configuration snapshot cfg: its upstream is
\* configured and has the fingerprint of the entry.
MatchesSnapshot(cfg, e) ==
  HasServer(cfg, e.name) /\ specFingerprint(SpecOf(cfg, e.name)) = e.fingerprint

\* Request r takes a step of its reconcile: from its dispatch, or from the
\* wait for the close of a stale entry.
ReconcileStep(r) ==
  /\ req[r].pc \in {"idle", "closing"}
  /\ req'[r] # req[r]
  /\ req'[r].cfg # <<>>

\* C21: a step of the reconcile of a request leaves in the pool, and does
\* not close, every entry that matches the snapshot of the request.
C21_ReconcileKeepsMatchingEntries ==
  [][\A r \in Slots :
       ReconcileStep(r) =>
         \A i \in 1..Len(pool) :
           MatchesSnapshot(req'[r].cfg, pool[i]) =>
             /\ PoolHas(pool', pool[i].name)
             /\ PoolGet(pool', pool[i].name).conn = pool[i].conn
             /\ ~conns'[pool[i].conn].closing]_vars

\* Request r resumes in the catch of getStdioConnection or callStdioUpstream
\* after the connect it awaited has failed.
FailedConnectStep(r) ==
  /\ req[r].pc = "connecting"
  /\ conns[req[r].conn].state = "failed"
  /\ req'[r] # req[r]

\* C22: when the connect awaited by a request has failed, the step of its
\* catch leaves in the pool an entry of the same upstream name that holds
\* another connection (one inserted after the failed one was replaced).
C22_FailureRemovesOnlyFailedEntry ==
  [][\A r \in Slots :
       FailedConnectStep(r) =>
         \A i \in 1..Len(pool) :
           (pool[i].name = req[r].cur /\ pool[i].conn # req[r].conn) =>
             /\ PoolHas(pool', pool[i].name)
             /\ PoolGet(pool', pool[i].name).conn = pool[i].conn]_vars

\* Connection c was successfully created: its connect resolved.
Created(c) == conns[c].state \in {"ready", "exited", "closed"}

\* Connection c is the one held by the pool entry of its upstream name.
HeldByPool(c) ==
  PoolHas(pool, conns[c].name) /\ PoolGet(pool, conns[c].name).conn = c

\* C23: every connection that was successfully created is held by the pool
\* entry of its upstream name or has had its close initiated.
C23_NoConnectionLeaks ==
  \A c \in 1..Len(conns) : Created(c) => (HeldByPool(c) \/ conns[c].closing)

\* C24: the step in which the server shuts down initiates the close of
\* every entry then in the pool, leaves the pool empty and changes nothing
\* else: no request is answered differently because a close failed.
C24_ShutdownClosesEveryEntry ==
  [][(listening /\ ~listening') =>
       /\ \A i \in 1..Len(pool) : conns'[pool[i].conn].closing
       /\ pool' = <<>>
       /\ req' = req
       /\ \A c \in 1..Len(conns) : conns'[c].state = conns[c].state]_vars

\* The server has shut down with two entries in the pool, one of them with
\* its connect pending, and that connect failed afterwards: the close of
\* both was initiated and the error of the second went nowhere.
C24_Witness ==
  /\ ~listening
  /\ pool = <<>>
  /\ Len(conns) = 2
  /\ conns[1].closing /\ conns[1].state = "closed"
  /\ conns[2].closing /\ conns[2].state = "failed"

\* The header value hv (its words) contains the token.
ContainsToken(hv, token) == \E k \in 1..Len(hv) : hv[k] = token

\* C25: no outbound HTTP call of a request that passed local authentication
\* carries an Authorization value that contains the expected local token.
C25_LocalTokenNeverForwarded ==
  \A r \in Slots : \A i \in 1..Len(req[r].calls) :
    (req[r].calls[i].transport = "http"
       /\ authHeaderIsValid(req[r].tok, req[r].auth, ExpectedToken))
    => \A k \in 1..Len(req[r].calls[i].authorization) :
         ~ContainsToken(req[r].calls[i].authorization[k], ExpectedToken)

\* The identifier of request r, parsed as routeNamespacedCall parses it: a
\* name is split on its first '.', a uri is mcpx://<server>/<encoded>.
ParsedIdentifier(r) ==
  IF req[r].method = "resources/read" THEN parseNamespacedUri(req[r].param)
  ELSE splitNamespacedName(req[r].param)

\* Request r is a call of the given scope that the gateway has dispatched.
DispatchedCall(r) ==
  /\ req[r].pc # "idle"
  /\ req[r].method \in CallMethods
  /\ authHeaderIsValid(req[r].tok, req[r].auth, ExpectedToken)

\* Request r failed with -32602 and contacted no upstream.
InvalidParams(r) == req[r].code = -32602 /\ req[r].calls = <<>>

\* C26: an unscoped call by a namespaced identifier whose server is
\* configured is sent to that server with the stripped identifier; by a
\* non-namespaced identifier it is sent flat iff exactly one upstream is
\* configured; every other case fails with -32602 and contacts no upstream.
C26_UnscopedCallRouting ==
  \A r \in Slots :
    (DispatchedCall(r) /\ req[r].filter = None) =>
      LET parsed == ParsedIdentifier(r) IN
      IF parsed.ok /\ HasServer(config, parsed.serverName)
      THEN SentOnly(r, parsed.serverName, parsed.rest)
      ELSE IF ~parsed.ok /\ Len(config) = 1
           THEN SentOnly(r, config[1].name, req[r].param)
           ELSE InvalidParams(r)

\* C27: a call scoped to X by an identifier namespaced with another server
\* fails with -32602, the message names that server and X, and no upstream
\* is contacted; a scoped call contacts no upstream other than X.
C27_ScopedMismatchRejected ==
  \A r \in Slots :
    (DispatchedCall(r) /\ req[r].filter # None) =>
      /\ \A i \in 1..Len(req[r].calls) : req[r].calls[i].up = req[r].filter
      /\ (HasServer(config, req[r].filter) /\ ParsedIdentifier(r).ok
            /\ ParsedIdentifier(r).serverName # req[r].filter)
         => /\ InvalidParams(r)
            /\ req[r].named = <<ParsedIdentifier(r).serverName, req[r].filter>>

\* A call scoped to a, by an identifier of the configured b, was rejected.
C27_Witness ==
  \E r \in Slots :
    /\ DispatchedCall(r) /\ req[r].filter = SrvA /\ req[r].pc = "done"
    /\ HasServer(config, SrvA) /\ HasServer(config, SrvB)
    /\ ParsedIdentifier(r).ok /\ ParsedIdentifier(r).serverName = SrvB
    /\ req[r].code = -32602

\* C28: every element of a batch is handled with the configuration snapshot
\* that the element before it was handled with: the step that takes the
\* next element of request r leaves the snapshot of r as it was.
C28_OneSnapshotPerRequest ==
  [][\A r \in Slots :
       (req[r].pc = "next" /\ req'[r] # req[r] /\ req[r].cfg # <<>> /\ req'[r].cfg # <<>>)
       => req'[r].cfg = req[r].cfg]_vars

\* The events of a body: the texts of the data: lines between two blank
\* lines joined with a newline; what the end of the body leaves open is the
\* last event.  cur holds the data lines of the event that is open.
RECURSIVE EventsOf(_, _)
EventsOf(lines, cur) ==
  LET flushed == IF cur = <<>> THEN <<>> ELSE << JoinLines(cur) >> IN
  IF lines = <<>> THEN flushed
  ELSE IF Head(lines).kind = "blank" THEN flushed \o EventsOf(Tail(lines), <<>>)
  ELSE IF Head(lines).kind = "data" THEN EventsOf(Tail(lines), Append(cur, Head(lines).text))
  ELSE EventsOf(Tail(lines), cur)

\* What the statement has the reader return for a body and a request id: the
\* first event that parses to an object with that id, else the last event
\* that parses, else nothing (JsonNull: the call fails with a parse error).
SseExpected(lines, expectedId) ==
  LET events == EventsOf(lines, <<>>)
      parsed == [i \in 1..Len(events) |-> JsonParse(events[i])]
      Match(i) == parsed[i].ok /\ parsed[i].v.json = "object" /\ parsed[i].v.id = expectedId
  IN IF \E i \in 1..Len(events) : Match(i)
     THEN parsed[CHOOSE i \in 1..Len(events) :
                   Match(i) /\ \A k \in 1..(i - 1) : ~Match(k)].v
     ELSE IF \E i \in 1..Len(events) : parsed[i].ok
          THEN parsed[CHOOSE i \in 1..Len(events) :
                        parsed[i].ok /\ \A k \in (i + 1)..Len(events) : ~parsed[k].ok].v
          ELSE JsonNull

\* C29: when the reader has returned, its result is the first parsable
\* event whose id is the request id, else the last parsable event, else
\* nothing.
C29_SseReaderResult ==
  stream.pc = "returned" => stream.result = SseExpected(stream.lines, stream.expectedId)

\* The reader returned the object of id 1 that came in two data lines.
C29_Witness ==
  /\ stream.pc = "returned"
  /\ stream.expectedId = "1"
  /\ stream.result = JsonObject("1")
  /\ \E i \in 1..(Len(stream.lines) - 1) :
       /\ stream.lines[i] = DataLine(<<"{", "id:1">>)
       /\ stream.lines[i + 1] = DataLine(<<"}">>)

\* Two specifications are semantically equal: the same transport, command
\* and url, and the same env or headers map, whatever the order of its keys.
SemanticallyEqual(s, t) ==
  /\ s.transport = t.transport /\ s.command = t.command /\ s.url = t.url
  /\ {s.pairs[i] : i \in 1..Len(s.pairs)} = {t.pairs[i] : i \in 1..Len(t.pairs)}

\* C30: the fingerprint of a connection equals the fingerprint of the
\* specification that a request presents for its upstream iff the connection
\* was built from a semantically equal specification.
C30_FingerprintIffSemanticallyEqual ==
  \A r \in Slots : \A c \in 1..Len(conns) :
    (req[r].pc # "idle" /\ HasServer(req[r].cfg, conns[c].name))
    => ( conns[c].fp = specFingerprint(SpecOf(req[r].cfg, conns[c].name))
         <=> SemanticallyEqual(conns[c].spec, SpecOf(req[r].cfg, conns[c].name)) )

====
